---- MODULE Spec2Model ----
(***************************************************************************)
(* A model of knitSim's rendering core:                                    *)
(*   - YarnWeightCalculator (the gauge engine), a set of pure functions    *)
(*     over a catalog of weight categories handed to its constructor;      *)
(*   - the colour parsers (SwatchRenderer.hexToRgb, ColorManager.hexToRgb) *)
(*     and YarnApp.calculateAverageColor;                                  *)
(*   - SwatchRenderer, which owns a fabric mesh, its geometry, material    *)
(*     and texture, and a frame loop;                                      *)
(*   - YarnRenderer, which owns a yarn mesh, a frame loop and a window     *)
(*     resize listener.                                                    *)
(* Reals are modelled exactly: thickness, WPI and gauge values are         *)
(* integers (whole catalog units) and every quotient the code forms is     *)
(* kept as a fraction [num, den] and rounded as Math.round rounds.         *)
(***************************************************************************)
EXTENDS Integers, Sequences, FiniteSets, TLC

VARIABLES
  \* ---- YarnWeightCalculator, and the colour functions ----
  weights,        \* this.weights: the catalog, in catalog order
  suggestions,    \* this.suggestions
  weightById,     \* this.weightById, built by buildLookups
  op,             \* the method called last
  strandIds,      \* its strandIds argument
  thickness,      \* the thickness argument of interpolateWPI
  hex,            \* the hex argument of hexToRgb
  hexColors,      \* the hexColors argument of calculateAverageColor
  ret,            \* the value it returned
  \* ---- SwatchRenderer ----
  fabricMesh,        \* this.fabricMesh: the installed mesh
  fabricGeometry,    \* this.fabricGeometry, 0 for null
  originalPositions, \* this.originalPositions: the snapshot and the geometry it was taken from
  positions,         \* this.fabricGeometry.attributes.position.array, one [x, y, z] a vertex
  scene,             \* the meshes among this.scene's children
  resources,         \* every geometry, material and texture created so far, by id
  texture,           \* what the latest createYarnTexture call was given and drew
  rendererDisposed,  \* whether this.renderer (the WebGL renderer) was disposed
  time,              \* this.time, in steps of 0.016
  animationId,       \* this.animationId: the frame handle stored last, 0 for null
  isAnimating,       \* this.isAnimating
  pending,           \* frame handles requested and neither run nor cancelled
  needleSize,        \* this.needleSize, in tenths of a millimetre
  yarnThickness,     \* this.yarnThickness
  strands,           \* this.strands
  colors,            \* this.colors
  called,            \* the SwatchRenderer method called last
  repeated,          \* whether that call was a clear() or destroy() made right after the same call
  threw,             \* whether that call raised an exception
  calls,             \* how far the calls so far match render([]) ; render(X) ; clear()
  \* ---- YarnRenderer ----
  yarnMesh,             \* this.yarnMesh
  yarnScene,            \* the yarn meshes among this.scene's children
  yarnResources,        \* every geometry and material created so far, by id
  yarnRendererDisposed, \* whether this.renderer was disposed
  yarnAnimationId,      \* this.animationId, 0 for null
  yarnIsAnimating,      \* this.isAnimating: the twist animation runs
  yarnPending,          \* frame handles requested and neither run nor cancelled
  yarnFrames,           \* how many frames were requested
  animationStartTime,   \* this.animationStartTime
  now,                  \* Date.now(), in seconds
  rotation,             \* this.yarnMesh.rotation.y
  resizeListeners,      \* the listeners registered on window for 'resize'
  rendererSize,         \* the width given to this.renderer.setSize last
  yarnCalled,           \* the YarnRenderer method called last
  yarnRepeated,         \* whether that call was a clear() or destroy() made right after the same call
  yarnThrew             \* whether that call raised an exception

calcVars == <<weights, suggestions, weightById, op, strandIds, thickness, hex, hexColors, ret>>

swatchVars ==
  <<fabricMesh, fabricGeometry, originalPositions, positions, scene, resources, texture,
    rendererDisposed, time, animationId, isAnimating, pending, needleSize, yarnThickness,
    strands, colors, called, repeated, threw, calls>>

yarnVars ==
  <<yarnMesh, yarnScene, yarnResources, yarnRendererDisposed, yarnAnimationId,
    yarnIsAnimating, yarnPending, yarnFrames, animationStartTime, now, rotation,
    resizeListeners, rendererSize, yarnCalled, yarnRepeated, yarnThrew>>

vars == <<calcVars, swatchVars, yarnVars>>

(***************************************************************************)
(* Bounds of the model.                                                    *)
(***************************************************************************)
MaxStrands == 3       \* longest strandIds sequence passed to the calculator
MaxThickness == 12    \* largest thickness passed to interpolateWPI directly
MaxResources == 9     \* geometries, materials and textures one renderer creates
MaxFrames == 2        \* frames the SwatchRenderer runs
MaxYarnFrames == 3    \* frames the YarnRenderer runs
MaxSwatchStrands == 1 \* longest strand list passed to SwatchRenderer.render
MaxTextureStrands == 2 \* longest strand list passed to createYarnTexture directly
MaxColors == 2        \* longest colour list passed to calculateAverageColor
MaxHexLen == 7        \* longest string passed to a colour parser
MaxYarnStrands == 2   \* longest strand list passed to YarnRenderer
MaxYarnResources == 12 \* geometries and materials the YarnRenderer creates
MaxClock == 3         \* seconds that pass
HalfSegments == 1     \* the placeholder plane has 2 * HalfSegments segments a side
CanvasSize == 24      \* side of the texture canvas, in pixels
StrandSegments == 3   \* vertices of a strand's centre line (120 in the code)

(***************************************************************************)
(* JavaScript values.                                                      *)
(***************************************************************************)
Null == [null |-> TRUE]
Undefined == [undefined |-> TRUE]
TypeError == [threw |-> "TypeError"]

Abs(x) == IF x < 0 THEN -x ELSE x

Sign(x) == IF x < 0 THEN -1 ELSE IF x > 0 THEN 1 ELSE 0

\* A JavaScript number as a quotient num/den with den >= 0; den = 0 stands for a
\* non-finite value: Infinity (num = 1), -Infinity (num = -1) or NaN (num = 0).
Frac(n, d) ==
  IF d = 0 THEN [num |-> Sign(n), den |-> 0]
  ELSE IF d < 0 THEN [num |-> -n, den |-> -d] ELSE [num |-> n, den |-> d]
Num(n) == [num |-> n, den |-> 1]
IsFinite(q) == q.den # 0
FracDiv(a, b) == Frac(a.num * b.den, a.den * b.num)
FracGeq(a, b) == a.num * b.den >= b.num * a.den
FracEq(a, b) == a.num * b.den = b.num * a.den

\* Math.round: the integer n with n <= q + 1/2 < n + 1; a non-finite value is kept.
MathRound(q) == IF IsFinite(q) THEN Num((2 * q.num + q.den) \div (2 * q.den)) ELSE q

Range(s) == {s[i] : i \in DOMAIN s}

RECURSIVE GCD(_, _)
GCD(a, b) == IF b = 0 THEN a ELSE GCD(b, a % b)

\* The same number in lowest terms.
Reduce(q) ==
  IF q.den = 0 THEN q
  ELSE LET g == GCD(Abs(q.num), q.den) IN [num |-> q.num \div g, den |-> q.den \div g]
FracMul(a, b) == Reduce(Frac(a.num * b.num, a.den * b.den))
FracSub(a, b) == Reduce(Frac(a.num * b.den - b.num * a.den, a.den * b.den))
FracAbs(q) == [num |-> Abs(q.num), den |-> q.den]
FracMax(a, b) == IF FracGeq(a, b) THEN a ELSE b
FracCube(q) == [num |-> q.num * q.num * q.num, den |-> q.den * q.den * q.den]

\* A JavaScript string, as the sequence of its characters.
Str(chars) == [chars |-> chars]

\* String(v), as RegExp.prototype.exec coerces its argument.
StringOf(v) ==
  IF v = Undefined THEN <<"u", "n", "d", "e", "f", "i", "n", "e", "d">>
  ELSE IF v = Null THEN <<"n", "u", "l", "l">>
  ELSE v.chars

(***************************************************************************)
(* The catalogs handed to the constructor (yarnWeights.json).              *)
(***************************************************************************)
Category(id, name, th, wpi, st, rw, mm, us) ==
  [id |-> id, name |-> name, thickness |-> th, wpi |-> wpi,
   gauge |-> [stitches |-> st, rows |-> rw, per |-> "4in"],
   needleSize |-> [mm |-> mm, us |-> us]]

Lace == Category(1, "Lace", 1, 30, 32, 40, 2, "0")
Worsted == Category(2, "Worsted", 4, 12, 18, 25, 5, "8")
Bulky == Category(3, "Bulky", 8, 6, 12, 16, 8, "11")

Suggestion(ids, result, description) ==
  [strands |-> ids, result |-> result, description |-> description]

StandardSuggestions ==
  << Suggestion(<<2, 2>>, 3, "two worsted"),
     Suggestion(<<1, 2>>, 2, "lace held with worsted"),
     Suggestion(<<2, 1>>, 3, "worsted held with lace"),
     Suggestion(<<1, 1, 2>>, 2, "two lace and a worsted") >>

WeightsData ==
  { [weights |-> <<Lace, Worsted, Bulky>>, suggestedCombinations |-> StandardSuggestions],
    [weights |-> <<Bulky, Worsted, Lace>>, suggestedCombinations |-> StandardSuggestions],
    [weights |-> <<Worsted>>, suggestedCombinations |-> <<>>] }

\* Ids a caller may pass: the catalog's ids and one id no catalog holds.
UnknownId == 9
Ids == {1, 2, 3, UnknownId}

BoundedSeq(S, n) == UNION {[1..k -> S] : k \in 0..n}

\* The function f, with the values it takes computed once and kept.
Tabulated(f) == f @@ <<>>

(***************************************************************************)
(* YarnWeightCalculator                                                    *)
(***************************************************************************)
\* buildLookups: a later entry with the same id overwrites an earlier one.
buildLookups(ws) ==
  [id \in {ws[i].id : i \in DOMAIN ws} |->
     ws[CHOOSE i \in DOMAIN ws :
          ws[i].id = id /\ \A j \in DOMAIN ws : ws[j].id = id => j <= i]]

getWeight(id) == IF id \in DOMAIN weightById THEN weightById[id] ELSE Undefined

RECURSIVE getCombinedThicknessFrom(_, _, _)
getCombinedThicknessFrom(ids, i, totalThickness) ==
  IF i > Len(ids) THEN totalThickness
  ELSE LET weight == getWeight(ids[i])
       IN getCombinedThicknessFrom(ids, i + 1,
            IF weight # Undefined THEN totalThickness + weight.thickness
            ELSE totalThickness)

getCombinedThicknessAveraged(ids) ==
  IF Len(ids) = 0 THEN 0 ELSE getCombinedThicknessFrom(ids, 1, 0) \div Len(ids)

getCombinedThicknessFirstTwice(ids) ==
  getCombinedThicknessFrom(ids, 1, 0) + getCombinedThicknessFrom(SubSeq(ids, 1, 1), 1, 0)

getCombinedThickness(ids) == getCombinedThicknessFrom(ids, 1, 0)

\* The nearest-category loop of calculateCombinedWeight, from index i on.
RECURSIVE closestFromLast(_, _, _, _)
closestFromLast(combinedThickness, i, closestWeight, minDifference) ==
  IF i > Len(weights) THEN closestWeight
  ELSE LET weight == weights[i]
           difference == Abs(combinedThickness - weight.thickness)
       IN IF difference <= minDifference
          THEN closestFromLast(combinedThickness, i + 1, weight, difference)
          ELSE closestFromLast(combinedThickness, i + 1, closestWeight, minDifference)

RECURSIVE closestFrom(_, _, _, _)
closestFrom(combinedThickness, i, closestWeight, minDifference) ==
  IF i > Len(weights) THEN closestWeight
  ELSE LET weight == weights[i]
           difference == Abs(combinedThickness - weight.thickness)
       IN IF difference < minDifference
          THEN closestFrom(combinedThickness, i + 1, weight, difference)
          ELSE closestFrom(combinedThickness, i + 1, closestWeight, minDifference)

calculateCombinedWeightUnguarded(ids) ==
  LET combinedThickness == getCombinedThickness(ids)
  IN [weight |-> closestFrom(combinedThickness, 2, weights[1],
                              Abs(combinedThickness - weights[1].thickness)),
      exactThickness |-> combinedThickness,
      strandCount |-> Len(ids),
      strands |-> [i \in DOMAIN ids |-> getWeight(ids[i])]]

calculateCombinedWeight(ids) ==
  IF Len(ids) = 0 THEN Null
  ELSE LET combinedThickness == getCombinedThickness(ids)
       IN [weight |-> closestFrom(combinedThickness, 2, weights[1],
                                   Abs(combinedThickness - weights[1].thickness)),
           exactThickness |-> combinedThickness,
           strandCount |-> Len(ids),
           strands |-> [i \in DOMAIN ids |-> getWeight(ids[i])]]

\* The bracket search of interpolateWPI: the first i with
\* weights[i].thickness <= t <= weights[i+1].thickness, or 0 when there is none.
bracketIndex(t) ==
  LET found == {i \in 1..(Len(weights) - 1) :
                  t >= weights[i].thickness /\ t <= weights[i + 1].thickness}
  IN IF found = {} THEN 0 ELSE CHOOSE i \in found : \A j \in found : i <= j

interpolateWPIRising(t) ==
  LET i == bracketIndex(t)
      lowerIdx == IF i = 0 THEN 1 ELSE i
      upperIdx == IF i = 0 THEN Len(weights) ELSE i + 1
      lower == weights[lowerIdx]
      upper == weights[upperIdx]
  IN IF lowerIdx = upperIdx THEN Num(lower.wpi)
     ELSE Frac(lower.wpi * (upper.thickness - lower.thickness)
                 + (lower.wpi - upper.wpi) * (t - lower.thickness),
               upper.thickness - lower.thickness)

interpolateWPI(t) ==
  LET i == bracketIndex(t)
      lowerIdx == IF i = 0 THEN 1 ELSE i
      upperIdx == IF i = 0 THEN Len(weights) ELSE i + 1
      lower == weights[lowerIdx]
      upper == weights[upperIdx]
  IN IF lowerIdx = upperIdx THEN Num(lower.wpi)
     ELSE \* lower.wpi - (lower.wpi - upper.wpi) * ratio, over the common denominator
          Frac(lower.wpi * (upper.thickness - lower.thickness)
                 - (lower.wpi - upper.wpi) * (t - lower.thickness),
               upper.thickness - lower.thickness)

getCombinedWPI(ids) ==
  LET combinedThickness == getCombinedThickness(ids)
      result == calculateCombinedWeight(ids)
  IN IF result = Null THEN Null
     ELSE LET exactWPI == interpolateWPI(combinedThickness)
          IN [approximate |-> result.weight.wpi,
              \* Math.round(exactWPI * 10) / 10
              calculated |-> FracDiv(MathRound(Frac(exactWPI.num * 10, exactWPI.den)), Num(10))]

estimateCombinedGaugeTruncating(ids) ==
  LET result == calculateCombinedWeight(ids)
  IN IF result = Null THEN Null
     ELSE LET baseGauge == result.weight.gauge
              thicknessRatio == Frac(result.exactThickness, result.weight.thickness)
              st == FracDiv(Num(baseGauge.stitches), thicknessRatio)
              rw == FracDiv(Num(baseGauge.rows), thicknessRatio)
          IN [stitches |-> IF IsFinite(st) THEN Num(st.num \div st.den) ELSE st,
              rows |-> IF IsFinite(rw) THEN Num(rw.num \div rw.den) ELSE rw,
              per |-> baseGauge.per,
              note |-> IF ~FracEq(thicknessRatio, Num(1)) THEN "Adjusted" ELSE "Standard"]

estimateCombinedGauge(ids) ==
  LET result == calculateCombinedWeight(ids)
  IN IF result = Null THEN Null
     ELSE LET baseGauge == result.weight.gauge
              combinedThickness == result.exactThickness
              standardThickness == result.weight.thickness
              thicknessRatio == Frac(combinedThickness, standardThickness)
          IN [stitches |-> MathRound(FracDiv(Num(baseGauge.stitches), thicknessRatio)),
              rows |-> MathRound(FracDiv(Num(baseGauge.rows), thicknessRatio)),
              per |-> baseGauge.per,
              note |-> IF ~FracEq(thicknessRatio, Num(1)) THEN "Adjusted" ELSE "Standard"]

getRecommendedNeedleSizeScaled(ids) ==
  LET result == calculateCombinedWeight(ids)
  IN IF result = Null THEN Null
     ELSE [mm |-> (result.weight.needleSize.mm * result.exactThickness)
                    \div result.weight.thickness,
           us |-> result.weight.needleSize.us,
           weight |-> result.weight.name]

getRecommendedNeedleSize(ids) ==
  LET result == calculateCombinedWeight(ids)
  IN IF result = Null THEN Null
     ELSE [mm |-> result.weight.needleSize.mm,
           us |-> result.weight.needleSize.us,
           weight |-> result.weight.name]

\* [...arr].sort((a, b) => a - b): ascending numeric order, repeats kept.
RECURSIVE insertSorted(_, _)
insertSorted(sorted, x) ==
  IF sorted = <<>> THEN <<x>>
  ELSE IF x - Head(sorted) < 0 THEN <<x>> \o sorted
  ELSE <<Head(sorted)>> \o insertSorted(Tail(sorted), x)

RECURSIVE sortNumeric(_)
sortNumeric(arr) ==
  IF arr = <<>> THEN <<>>
  ELSE insertSorted(sortNumeric(SubSeq(arr, 1, Len(arr) - 1)), arr[Len(arr)])

arraysEqualNoLengthCheck(arr1, arr2) ==
  \A index \in DOMAIN arr1 : index \in DOMAIN arr2 /\ arr1[index] = arr2[index]

arraysEqual(arr1, arr2) ==
  IF Len(arr1) # Len(arr2) THEN FALSE
  ELSE \A index \in DOMAIN arr1 : arr1[index] = arr2[index]

matchesSuggestion(ids) ==
  LET sortedInput == sortNumeric(ids)
      hits == {k \in DOMAIN suggestions :
                 arraysEqual(sortedInput, sortNumeric(suggestions[k].strands))}
  IN IF hits = {} THEN [matches |-> FALSE]
     ELSE LET suggestion == suggestions[CHOOSE k \in hits : \A j \in hits : k <= j]
          IN [matches |-> TRUE,
              description |-> suggestion.description,
              result |-> getWeight(suggestion.result)]

\* combined.strands.map(s => s.name) raises a TypeError on an undefined strand.
generateSummaryText(combined, suggestion) ==
  IF \E i \in DOMAIN combined.strands : combined.strands[i] = Undefined THEN TypeError
  ELSE [strandNames |-> [i \in DOMAIN combined.strands |-> combined.strands[i].name],
        weight |-> combined.weight.name,
        description |-> IF suggestion.matches THEN suggestion.description ELSE ""]

generateReport(ids) ==
  LET combined == calculateCombinedWeight(ids)
  IN IF combined = Null THEN Null
     ELSE LET wpi == getCombinedWPI(ids)
              gauge == estimateCombinedGauge(ids)
              needles == getRecommendedNeedleSize(ids)
              suggestion == matchesSuggestion(ids)
              summary == generateSummaryText(combined, suggestion)
          IN IF summary = TypeError THEN TypeError
             ELSE [combined |-> combined, wpi |-> wpi, gauge |-> gauge,
                   needles |-> needles, suggestion |-> suggestion, summary |-> summary]

(***************************************************************************)
(* Colour parsing. Both parsers match their argument against               *)
(* /^#?([a-f\d]{2})([a-f\d]{2})([a-f\d]{2})$/i and read each group with     *)
(* parseInt(group, 16).                                                    *)
(***************************************************************************)
LowerHexDigits ==
  <<"0", "1", "2", "3", "4", "5", "6", "7", "8", "9", "a", "b", "c", "d", "e", "f">>
UpperHexLetters == <<"A", "B", "C", "D", "E", "F">>

\* The value of a character that [a-f\d] matches under the i flag; -1 for any other.
hexDigitValue(c) ==
  IF \E i \in DOMAIN LowerHexDigits : LowerHexDigits[i] = c
  THEN (CHOOSE i \in DOMAIN LowerHexDigits : LowerHexDigits[i] = c) - 1
  ELSE IF \E i \in DOMAIN UpperHexLetters : UpperHexLetters[i] = c
  THEN (CHOOSE i \in DOMAIN UpperHexLetters : UpperHexLetters[i] = c) + 9
  ELSE -1

parseInt16(group) == 16 * hexDigitValue(group[1]) + hexDigitValue(group[2])

\* regex.exec(v): the three groups when String(v) is six hex digits after an
\* optional '#', no match otherwise ('#' is no hex digit, so a leading '#' can
\* only be the optional prefix).
exec(v) ==
  LET str == StringOf(v)
      digits == IF Len(str) > 0 /\ str[1] = "#" THEN Tail(str) ELSE str
  IN IF Len(digits) = 6 /\ \A i \in 1..6 : hexDigitValue(digits[i]) >= 0
     THEN [matched |-> TRUE,
           groups |-> <<SubSeq(digits, 1, 2), SubSeq(digits, 3, 4), SubSeq(digits, 5, 6)>>]
     ELSE [matched |-> FALSE]

Rgb(r, g, b) == [r |-> r, g |-> g, b |-> b]

\* SwatchRenderer.hexToRgb
hexToRgb(v) ==
  LET result == exec(v)
  IN IF result.matched
     THEN Rgb(parseInt16(result.groups[1]), parseInt16(result.groups[2]),
              parseInt16(result.groups[3]))
     ELSE Rgb(128, 128, 128)

\* ColorManager.hexToRgb
ColorManager_hexToRgb(v) ==
  LET result == exec(v)
  IN IF result.matched
     THEN Rgb(parseInt16(result.groups[1]), parseInt16(result.groups[2]),
              parseInt16(result.groups[3]))
     ELSE Null

\* x.toString(16), left-padded to two characters; NaN prints as "NaN".
toString16(x) ==
  IF ~IsFinite(x) THEN <<"N", "a", "N">>
  ELSE IF x.num < 16 THEN <<"0", LowerHexDigits[x.num + 1]>>
  ELSE <<LowerHexDigits[(x.num \div 16) + 1], LowerHexDigits[(x.num % 16) + 1]>>

\* ColorManager.rgbToHex
rgbToHex(r, g, b) == Str(<<"#">> \o toString16(r) \o toString16(g) \o toString16(b))

\* The forEach of calculateAverageColor, from index i on: a colour that
\* ColorManager.hexToRgb rejects adds nothing to the totals.
RECURSIVE totalFrom(_, _, _)
totalFrom(list, i, total) ==
  IF i > Len(list) THEN total
  ELSE LET rgb == ColorManager_hexToRgb(list[i])
       IN totalFrom(list, i + 1,
            IF rgb # Null
            THEN Rgb(total.r + rgb.r, total.g + rgb.g, total.b + rgb.b)
            ELSE total)

\* YarnApp.calculateAverageColor
calculateAverageColor(list) ==
  IF Len(list) = 1 THEN list[1]
  ELSE LET total == totalFrom(list, 1, Rgb(0, 0, 0))
           count == Len(list)
       IN rgbToHex(MathRound(Frac(total.r, count)), MathRound(Frac(total.g, count)),
                   MathRound(Frac(total.b, count)))

\* Strings handed to the parsers: every string of at most MaxHexLen characters
\* over a prefix sign, a lower-case and an upper-case hex letter, a decimal digit
\* and a letter that is no hex digit; and the two absent values.
HexAlphabet == {"#", "a", "F", "7", "g"}
HexInputs == {Str(chars) : chars \in BoundedSeq(HexAlphabet, MaxHexLen)} \cup {Undefined, Null}

\* Strand colours a caller passes: well-formed ones and malformed ones.
WellFormedColor == Str(<<"#", "F", "F", "7", "7", "a", "a">>)
White == Str(<<"#", "F", "F", "F", "F", "F", "F">>)
MalformedColor == Str(<<"#", "g", "F", "7">>)

(***************************************************************************)
(* SwatchRenderer                                                          *)
(***************************************************************************)
Colors == {WellFormedColor, MalformedColor}
StrandLists == BoundedSeq([color : Colors], MaxSwatchStrands)
\* A strands argument: a list, or none given.
StrandArguments == {[strands |-> list] : list \in StrandLists} \cup {Undefined}
\* The strands arguments of direct createYarnTexture calls: lists of every
\* length up to MaxTextureStrands, well-formed and malformed colours in turn.
TextureStrandLists ==
  {[i \in 1..n |-> [color |-> IF i % 2 = 1 THEN WellFormedColor ELSE MalformedColor]] :
     n \in 0..MaxTextureStrands}
TextureArguments == {[strands |-> list] : list \in TextureStrandLists} \cup {Undefined}
\* combinedThickness arguments of render; 0 stands for a missing (falsy) one.
CombinedThicknesses == {0, 7}
DefaultYarnThickness == 4
\* Needle sizes in tenths of a millimetre: 4.0 mm (the constructor's) and 6.0 mm.
DefaultNeedleSize == 40
NeedleSizes == {DefaultNeedleSize, 60}

Resource(kind) == [kind |-> kind, disposed |-> FALSE]
dispose(res, id) == [res EXCEPT ![id].disposed = TRUE]

\* The fields createPlaceholder, createFabric and createYarnTexture read and write.
CurrentMeshState ==
  [fabricMesh |-> fabricMesh, fabricGeometry |-> fabricGeometry,
   originalPositions |-> originalPositions, positions |-> positions,
   scene |-> scene, resources |-> resources, texture |-> texture,
   needleSize |-> needleSize, yarnThickness |-> yarnThickness]

\* new THREE.PlaneGeometry(width, width, segments, segments): the vertices row by
\* row from the top left, x = ix * width / segments - width / 2 and
\* y = width / 2 - iy * width / segments, z = 0.
PlaneGeometry(width, segments) ==
  [v \in 1..((segments + 1) * (segments + 1)) |->
     LET ix == (v - 1) % (segments + 1)
         iy == (v - 1) \div (segments + 1)
     IN [x |-> Reduce(Frac(width.num * (2 * ix - segments), width.den * 2 * segments)),
         y |-> Reduce(Frac(width.num * (segments - 2 * iy), width.den * 2 * segments)),
         z |-> Num(0)]]

\* The planes keep the code's proportions: the fabric plane has twice the
\* segments of the placeholder plane (64 and 32 in the code).
PlaceholderSegments == 2 * HalfSegments
FabricSegments == 4 * HalfSegments
PlaceholderWidth == Num(3)
FabricWidth == Frac(7, 2)
PlaceholderPlane == Tabulated(PlaneGeometry(PlaceholderWidth, PlaceholderSegments))
FabricPlane == Tabulated(PlaneGeometry(FabricWidth, FabricSegments))

\* The placeholder installed without disposing of the mesh it replaces.
createPlaceholderKeeping(m) ==
  LET old == m.fabricMesh
      geometry == Len(m.resources) + 1
      material == Len(m.resources) + 2
      mesh == [kind |-> "placeholder", geometry |-> geometry, material |-> material,
               map |-> 0, color |-> Rgb(Num(221), Num(221), Num(221)), rotationX |-> Num(0)]
      array == PlaceholderPlane
  IN [m EXCEPT !.fabricMesh = mesh,
               !.fabricGeometry = geometry,
               !.originalPositions = [geometry |-> geometry, array |-> array],
               !.positions = array,
               !.scene = (IF old # Null THEN m.scene \ {old} ELSE m.scene) \cup {mesh},
               !.resources = m.resources \o <<Resource("geometry"), Resource("material")>>]

\* A mesh names its geometry, its material and the material's map (0: no map).
createPlaceholder(m) ==
  LET old == m.fabricMesh
      kept == IF old # Null
              THEN dispose(dispose(m.resources, old.geometry), old.material)
              ELSE m.resources
      geometry == Len(kept) + 1
      material == Len(kept) + 2
      mesh == [kind |-> "placeholder", geometry |-> geometry, material |-> material,
               map |-> 0, color |-> Rgb(Num(221), Num(221), Num(221)), rotationX |-> Num(0)]
      array == PlaceholderPlane
  IN [m EXCEPT !.fabricMesh = mesh,
               !.fabricGeometry = geometry,
               !.originalPositions = [geometry |-> geometry, array |-> array],
               !.positions = array,
               !.scene = (IF old # Null THEN m.scene \ {old} ELSE m.scene) \cup {mesh},
               !.resources = kept \o <<Resource("geometry"), Resource("material")>>]

\* ---- the texture: what createYarnTexture draws on its canvas ----
\* Lengths are in 1/10000 of a pixel. A stroke records the helper that issued
\* it, ctx.strokeStyle and ctx.lineWidth at ctx.stroke(), and the path.
RgbStyle(r, g, b) == [css |-> "rgb", r |-> r, g |-> g, b |-> b]
RawStyle(color) == [css |-> "raw", value |-> color]
HighlightStyle == [css |-> "rgba(255, 255, 255, 0.3)"]

\* plyWidth * percent / 100, where plyWidth = yarnWidth / Math.sqrt(strandCount);
\* the square root is not evaluated.
PlyWidth(yarnWidth, strandCount, percent) ==
  [yarnWidth |-> yarnWidth, strandCount |-> strandCount, percent |-> percent]

Stroke(shape, strokeStyle, lineWidth, path) ==
  [shape |-> shape, strokeStyle |-> strokeStyle, lineWidth |-> lineWidth, path |-> path]

\* The strands laid side by side from the stitch centre to the right.
plyOffsetFromCentre(s, strandCount, yarnWidth) == s * (yarnWidth \div 10)

\* (s - (strandCount - 1) / 2) * (yarnWidth * 0.1), s counted from 0
plyOffset(s, strandCount, yarnWidth) == ((2 * s - (strandCount - 1)) * (yarnWidth \div 10)) \div 2

drawAscendingLeg(x, arcY, bottomY, stitchHeight, direction) ==
  LET bulgeAmount == ((stitchHeight * 15) \div 100) * direction
  IN [moveTo |-> <<x, bottomY>>,
      bezierCurveTo |-> <<x + bulgeAmount, bottomY - (stitchHeight * 30) \div 100,
                          x + bulgeAmount, arcY + (stitchHeight * 20) \div 100,
                          x, arcY>>]

drawArc(centerX, arcY, arcWidth, arcHeight) ==
  [moveTo |-> <<centerX - arcWidth, arcY>>,
   bezierCurveTo |-> <<centerX - arcWidth, arcY - arcHeight,
                       centerX + arcWidth, arcY - arcHeight,
                       centerX + arcWidth, arcY>>]

drawConnection(leftX, rightX, y, stitchHeight) ==
  LET sag == (stitchHeight * 6) \div 100
  IN [moveTo |-> <<leftX, y>>,
      bezierCurveTo |-> <<leftX + ((rightX - leftX) * 30) \div 100, y + sag,
                          leftX + ((rightX - leftX) * 70) \div 100, y + sag,
                          rightX, y>>]

\* For each strand, for each row from the last to the first: the left leg's
\* shadow and main stroke, then the right leg's.
drawColumnAscending(col, rows, stitchWidth, stitchHeight, strandList, yarnWidth) ==
  LET strandCount == Len(strandList)
      centerX == col * stitchWidth + stitchWidth \div 2
      legSpread == (stitchWidth * 28) \div 100
  IN [k \in 1..(strandCount * rows * 4) |->
        LET s == (k - 1) \div (rows * 4)
            row == rows - 1 - (((k - 1) \div 4) % rows)
            part == (k - 1) % 4
            rgb == hexToRgb(strandList[s + 1].color)
            offset == plyOffset(s, strandCount, yarnWidth)
            topY == row * stitchHeight
            arcY == topY + (stitchHeight * 15) \div 100
            bottomY == topY + (stitchHeight * 105) \div 100
            direction == IF part < 2 THEN -1 ELSE 1
            x == centerX + direction * legSpread + offset
        IN IF part % 2 = 0
           THEN Stroke("ascendingLeg",
                       RgbStyle(rgb.r \div 2, rgb.g \div 2, rgb.b \div 2),
                       PlyWidth(yarnWidth, strandCount, 115),
                       drawAscendingLeg(x + 10000, arcY + 10000, bottomY + 10000,
                                        stitchHeight, direction))
           ELSE Stroke("ascendingLeg",
                       RgbStyle((rgb.r * 8) \div 10, (rgb.g * 8) \div 10, (rgb.b * 8) \div 10),
                       PlyWidth(yarnWidth, strandCount, 100),
                       drawAscendingLeg(x, arcY, bottomY, stitchHeight, direction))]

\* For each strand, for each row from the first to the last: the arc's shadow,
\* its main stroke in the strand's own colour string, and its highlight.
drawColumnArcs(col, rows, stitchWidth, stitchHeight, strandList, yarnWidth) ==
  LET strandCount == Len(strandList)
      centerX == col * stitchWidth + stitchWidth \div 2
      legSpread == (stitchWidth * 28) \div 100
      arcWidth == legSpread
  IN [k \in 1..(strandCount * rows * 3) |->
        LET s == (k - 1) \div (rows * 3)
            row == ((k - 1) \div 3) % rows
            part == (k - 1) % 3
            strand == strandList[s + 1]
            rgb == hexToRgb(strand.color)
            offset == plyOffset(s, strandCount, yarnWidth)
            topY == row * stitchHeight
            arcY == topY + (stitchHeight * 15) \div 100
            arcHeight == (stitchHeight * 18) \div 100
        IN IF part = 0
           THEN Stroke("arc",
                       RgbStyle((rgb.r * 55) \div 100, (rgb.g * 55) \div 100,
                                (rgb.b * 55) \div 100),
                       PlyWidth(yarnWidth, strandCount, 115),
                       drawArc(centerX + offset + 10000, arcY + 10000, arcWidth, arcHeight))
           ELSE IF part = 1
           THEN Stroke("arc", RawStyle(strand.color), PlyWidth(yarnWidth, strandCount, 100),
                       drawArc(centerX + offset, arcY, arcWidth, arcHeight))
           ELSE Stroke("arc", HighlightStyle, PlyWidth(yarnWidth, strandCount, 30),
                       drawArc(centerX + offset - 4000, arcY - 4000, arcWidth, arcHeight))]

\* For each strand, for each pair of adjacent columns from the left: the
\* connection's shadow, its main stroke and its highlight.
drawRowConnections(row, cols, stitchWidth, stitchHeight, strandList, yarnWidth) ==
  LET strandCount == Len(strandList)
      topY == row * stitchHeight
      arcY == topY + (stitchHeight * 15) \div 100
      legSpread == (stitchWidth * 28) \div 100
  IN [k \in 1..(strandCount * (cols - 1) * 3) |->
        LET s == (k - 1) \div ((cols - 1) * 3)
            col == ((k - 1) \div 3) % (cols - 1)
            part == (k - 1) % 3
            strand == strandList[s + 1]
            rgb == hexToRgb(strand.color)
            offset == plyOffset(s, strandCount, yarnWidth)
            leftX == col * stitchWidth + stitchWidth \div 2 + legSpread + offset
            rightX == (col + 1) * stitchWidth + stitchWidth \div 2 - legSpread + offset
        IN IF part = 0
           THEN Stroke("connection",
                       RgbStyle((rgb.r * 55) \div 100, (rgb.g * 55) \div 100,
                                (rgb.b * 55) \div 100),
                       PlyWidth(yarnWidth, strandCount, 115),
                       drawConnection(leftX + 10000, rightX + 10000, arcY + 10000, stitchHeight))
           ELSE IF part = 1
           THEN Stroke("connection", RawStyle(strand.color),
                       PlyWidth(yarnWidth, strandCount, 100),
                       drawConnection(leftX, rightX, arcY, stitchHeight))
           ELSE Stroke("connection", HighlightStyle, PlyWidth(yarnWidth, strandCount, 30),
                       drawConnection(leftX - 4000, rightX - 4000, arcY - 4000, stitchHeight))]

\* The three loops of createYarnTexture, from column (or row) i on.
RECURSIVE ascendingLayer(_, _, _, _, _, _, _)
ascendingLayer(i, cols, rows, stitchWidth, stitchHeight, strandList, yarnWidth) ==
  IF i >= cols THEN <<>>
  ELSE drawColumnAscending(i, rows, stitchWidth, stitchHeight, strandList, yarnWidth)
         \o ascendingLayer(i + 1, cols, rows, stitchWidth, stitchHeight, strandList, yarnWidth)

RECURSIVE connectionLayer(_, _, _, _, _, _, _)
connectionLayer(i, cols, rows, stitchWidth, stitchHeight, strandList, yarnWidth) ==
  IF i >= rows THEN <<>>
  ELSE drawRowConnections(i, cols, stitchWidth, stitchHeight, strandList, yarnWidth)
         \o connectionLayer(i + 1, cols, rows, stitchWidth, stitchHeight, strandList, yarnWidth)

RECURSIVE arcLayer(_, _, _, _, _, _, _)
arcLayer(i, cols, rows, stitchWidth, stitchHeight, strandList, yarnWidth) ==
  IF i >= cols THEN <<>>
  ELSE drawColumnArcs(i, rows, stitchWidth, stitchHeight, strandList, yarnWidth)
         \o arcLayer(i + 1, cols, rows, stitchWidth, stitchHeight, strandList, yarnWidth)

\* Stitch geometry: yarnWidth = 2.5 + yarnThickness * 0.7,
\* stitchWidth = 14 + needleSize * 2, stitchHeight = stitchWidth * 1.2,
\* cols = Math.ceil(size / stitchWidth) + 2, rows = Math.ceil(size / stitchHeight) + 2.
StitchGrid(needle, thick) ==
  LET size == CanvasSize * 10000
      stitchWidth == 140000 + needle * 2000
      stitchHeight == (stitchWidth * 12) \div 10
  IN [yarnWidth |-> 25000 + thick * 7000,
      stitchWidth |-> stitchWidth,
      stitchHeight |-> stitchHeight,
      cols |-> ((size + stitchWidth - 1) \div stitchWidth) + 2,
      rows |-> ((size + stitchHeight - 1) \div stitchHeight) + 2]

\* ctx.fillStyle = '#FFFFFF' and ctx.fillRect over the whole canvas
BlankCanvas == [fillStyle |-> White, commands |-> <<>>, wrap |-> "ClampToEdgeWrapping"]

Painted(commands) == [fillStyle |-> White, commands |-> commands, wrap |-> "RepeatWrapping"]

\* The three layers of createYarnTexture, drawn one after the other.
threeLayers(needle, thick, strandList) ==
  LET g == StitchGrid(needle, thick)
  IN Painted(ascendingLayer(0, g.cols, g.rows, g.stitchWidth, g.stitchHeight,
                            strandList, g.yarnWidth)
             \o connectionLayer(0, g.cols, g.rows, g.stitchWidth, g.stitchHeight,
                                strandList, g.yarnWidth)
             \o arcLayer(0, g.cols, g.rows, g.stitchWidth, g.stitchHeight,
                         strandList, g.yarnWidth))

\* threeLayers on every needle size, yarn thickness and strand list of the
\* model, evaluated once.
YarnThicknesses == {DefaultYarnThickness} \cup (CombinedThicknesses \ {0})
ThreeLayers ==
  Tabulated([needle \in NeedleSizes, thick \in YarnThicknesses,
             strandList \in StrandLists \cup TextureStrandLists |->
               threeLayers(needle, thick, strandList)])

\* The arcs of a column drawn right after its legs.
RECURSIVE columnByColumn(_, _, _, _, _, _, _)
columnByColumn(i, cols, rows, stitchWidth, stitchHeight, strandList, yarnWidth) ==
  IF i >= cols THEN <<>>
  ELSE drawColumnAscending(i, rows, stitchWidth, stitchHeight, strandList, yarnWidth)
         \o drawColumnArcs(i, rows, stitchWidth, stitchHeight, strandList, yarnWidth)
         \o columnByColumn(i + 1, cols, rows, stitchWidth, stitchHeight, strandList, yarnWidth)

createYarnTextureInterleaved(m, arg) ==
  IF arg = Undefined \/ Len(arg.strands) = 0 THEN BlankCanvas
  ELSE LET g == StitchGrid(m.needleSize, m.yarnThickness)
       IN Painted(connectionLayer(0, g.cols, g.rows, g.stitchWidth, g.stitchHeight,
                                  arg.strands, g.yarnWidth)
                  \o columnByColumn(0, g.cols, g.rows, g.stitchWidth, g.stitchHeight,
                                    arg.strands, g.yarnWidth))

\* The yarn drawn wider as the animation time advances.
createYarnTextureTimed(m, arg) ==
  IF arg = Undefined \/ Len(arg.strands) = 0 THEN BlankCanvas
  ELSE threeLayers(m.needleSize, m.yarnThickness + time, arg.strands)

\* createYarnTexture(strands): the canvas is filled white; with no strands it is
\* returned as it is; otherwise the three layers are drawn on it.
createYarnTexture(m, arg) ==
  IF arg = Undefined \/ Len(arg.strands) = 0 THEN BlankCanvas
  ELSE ThreeLayers[m.needleSize, m.yarnThickness, arg.strands]

\* The record kept of a createYarnTexture call: the texture's id among the
\* renderer's resources (0: handed to the caller), the inputs the call read and
\* the canvas it returned.
TextureOf(id, m, arg, canvas) ==
  [id |-> id, strands |-> arg, needleSize |-> m.needleSize,
   yarnThickness |-> m.yarnThickness, canvas |-> canvas]

NoTexture == [none |-> TRUE]

\* The forEach of createFabric that sums the strands' channels.
RECURSIVE sumRgbFrom(_, _, _)
sumRgbFrom(strandList, i, sum) ==
  IF i > Len(strandList) THEN sum
  ELSE LET rgb == hexToRgb(strandList[i].color)
       IN sumRgbFrom(strandList, i + 1, Rgb(sum.r + rgb.r, sum.g + rgb.g, sum.b + rgb.b))

\* new THREE.Color(`rgb(avgR, avgG, avgB)`).lerp(white, 0.4), on the 0..255 scale
fabricColor(strandList) ==
  LET sum == sumRgbFrom(strandList, 1, Rgb(0, 0, 0))
      n == Len(strandList)
      avgR == IF n > 0 THEN MathRound(Frac(sum.r, n)).num ELSE 128
      avgG == IF n > 0 THEN MathRound(Frac(sum.g, n)).num ELSE 128
      avgB == IF n > 0 THEN MathRound(Frac(sum.b, n)).num ELSE 128
  IN Rgb(Reduce(Frac(3 * avgR + 2 * 255, 5)), Reduce(Frac(3 * avgG + 2 * 255, 5)),
         Reduce(Frac(3 * avgB + 2 * 255, 5)))

\* createFabric without its line 357: the snapshot of the mesh replaced is kept.
createFabricStaleSnapshot(m, strandList) ==
  LET old == m.fabricMesh
      disposedGeometry == IF old # Null THEN dispose(m.resources, old.geometry) ELSE m.resources
      disposedMap == IF old # Null /\ old.map # 0
                     THEN dispose(disposedGeometry, old.map) ELSE disposedGeometry
      kept == IF old # Null THEN dispose(disposedMap, old.material) ELSE disposedMap
      geometry == Len(kept) + 1
      map == Len(kept) + 2
      material == Len(kept) + 3
      array == FabricPlane
      mesh == [kind |-> "fabric", geometry |-> geometry, material |-> material, map |-> map,
               color |-> fabricColor(strandList), rotationX |-> Frac(-1, 5)]
  IN [m EXCEPT !.fabricMesh = mesh,
               !.fabricGeometry = geometry,
               !.positions = array,
               !.scene = (IF old # Null THEN m.scene \ {old} ELSE m.scene) \cup {mesh},
               !.resources = kept \o <<Resource("geometry"), Resource("texture"),
                                       Resource("material")>>,
               !.texture = TextureOf(map, m, [strands |-> strandList],
                                     createYarnTexture(m, [strands |-> strandList]))]

createFabric(m, strandList) ==
  LET old == m.fabricMesh
      disposedGeometry == IF old # Null THEN dispose(m.resources, old.geometry) ELSE m.resources
      disposedMap == IF old # Null /\ old.map # 0
                     THEN dispose(disposedGeometry, old.map) ELSE disposedGeometry
      kept == IF old # Null THEN dispose(disposedMap, old.material) ELSE disposedMap
      geometry == Len(kept) + 1
      map == Len(kept) + 2
      material == Len(kept) + 3
      array == FabricPlane
      mesh == [kind |-> "fabric", geometry |-> geometry, material |-> material, map |-> map,
               color |-> fabricColor(strandList), rotationX |-> Frac(-1, 5)]
  IN [m EXCEPT !.fabricMesh = mesh,
               !.fabricGeometry = geometry,
               !.originalPositions = [geometry |-> geometry, array |-> array],
               !.positions = array,
               !.scene = (IF old # Null THEN m.scene \ {old} ELSE m.scene) \cup {mesh},
               !.resources = kept \o <<Resource("geometry"), Resource("texture"),
                                       Resource("material")>>,
               !.texture = TextureOf(map, m, [strands |-> strandList],
                                     createYarnTexture(m, [strands |-> strandList]))]

\* ---- the animation ----
\* Math.sin of an angle given in hundredths of a radian, in tenths, by
\* Bhaskara's approximation 16 h (pi - h) / (5 pi^2 - 4 h (pi - h)) on each half
\* period (pi = 3.14).
Sin10(c) ==
  LET a == c % 628
      h == IF a <= 314 THEN a ELSE a - 314
      b == (160 * h * (314 - h)) \div (492980 - 4 * h * (314 - h))
  IN IF a <= 314 THEN b ELSE -b

\* Math.floor of 100 q
Centi(q) == (100 * q.num) \div q.den

\* a + b, over the least common denominator; a sum with NaN, or of Infinity
\* and -Infinity, is NaN.
FracAdd(a, b) ==
  IF a.den = 0 /\ b.den = 0 THEN (IF a.num = b.num THEN a ELSE Frac(0, 0))
  ELSE IF a.den = 0 THEN a
  ELSE IF b.den = 0 THEN b
  ELSE LET g == GCD(a.den, b.den)
       IN Reduce(Frac(a.num * (b.den \div g) + b.num * (a.den \div g), (a.den \div g) * b.den))

\* this.time advances by 0.016 a frame.
Seconds(t) == Reduce(Frac(16 * t, 1000))

\* (1 - Math.pow(Math.abs(x) / 1.75, 3)) * (1 - Math.pow(Math.abs(y) / 1.75, 3))
edgeFactor(x, y) ==
  FracMul(FracSub(Num(1), FracCube(FracMul(FracAbs(x), Frac(4, 7)))),
          FracSub(Num(1), FracCube(FracMul(FracAbs(y), Frac(4, 7)))))

\* wave1 + wave2 + wave3 + wave4, in thousandths
waves(x, y, t) ==
  18 * Sin10(Centi(FracAdd(FracMul(x, Frac(18, 10)), FracMul(Seconds(t), Frac(6, 10)))))
  + 14 * Sin10(Centi(FracAdd(FracMul(y, Frac(22, 10)), FracMul(Seconds(t), Frac(9, 10)))))
  + 10 * Sin10(Centi(FracAdd(FracMul(FracAdd(x, y), Frac(12, 10)),
                             FracMul(Seconds(t), Frac(4, 10)))))
  + 6 * Sin10(Centi(FracSub(FracMul(x, Num(3)), FracMul(Seconds(t), Frac(11, 10)))))

\* (wave1 + wave2 + wave3 + wave4) * Math.max(0, edgeFactor)
displacement(x, y, t) ==
  FracMul(Frac(waves(x, y, t), 1000), FracMax(Num(0), edgeFactor(x, y)))

\* displacement at every vertex of the two planes and every frame of the
\* model, evaluated once.
PlanePoints ==
  {[x |-> p.x, y |-> p.y] : p \in Range(PlaceholderPlane) \cup Range(FabricPlane)}
Displacements ==
  Tabulated([p \in PlanePoints, t \in 1..(MaxFrames + 1) |-> displacement(p.x, p.y, t)])

\* The wave added to the z the last frame left.
animateFabricAccumulating(array, original, t) ==
  [v \in DOMAIN array |->
     [array[v] EXCEPT !.z = FracAdd(array[v].z,
                                    Displacements[[x |-> original[v].x, y |-> original[v].y], t])]]

\* animateFabric, at this.time = t: x and y are read from the snapshot and z
\* alone is written.
animateFabric(array, original, t) ==
  [v \in DOMAIN array |->
     [array[v] EXCEPT !.z = Displacements[[x |-> original[v].x, y |-> original[v].y], t]]]

Install(m) ==
  /\ fabricMesh' = m.fabricMesh
  /\ fabricGeometry' = m.fabricGeometry
  /\ originalPositions' = m.originalPositions
  /\ positions' = m.positions
  /\ scene' = m.scene
  /\ resources' = m.resources
  /\ texture' = m.texture

\* The constructor: createPlaceholder() on an empty scene, then startAnimation(),
\* whose first animate() requests frame 1, advances the time once and deforms
\* the placeholder.
SwatchRendererConstructed ==
  /\ LET m == createPlaceholder([fabricMesh |-> Null, fabricGeometry |-> 0,
                                 originalPositions |-> Null, positions |-> Null,
                                 scene |-> {}, resources |-> <<>>, texture |-> NoTexture,
                                 needleSize |-> DefaultNeedleSize,
                                 yarnThickness |-> DefaultYarnThickness])
     IN /\ fabricMesh = m.fabricMesh
        /\ fabricGeometry = m.fabricGeometry
        /\ originalPositions = m.originalPositions
        /\ positions = animateFabric(m.positions, m.originalPositions.array, 1)
        /\ scene = m.scene
        /\ resources = m.resources
        /\ texture = m.texture
  /\ rendererDisposed = FALSE
  /\ time = 1
  /\ animationId = 1
  /\ isAnimating = TRUE
  /\ pending = {1}
  /\ needleSize = DefaultNeedleSize
  /\ yarnThickness = DefaultYarnThickness
  /\ strands = <<>>
  /\ colors = <<Str(<<"#", "5", "5", "5", "5", "5", "5">>)>>
  /\ called = "constructor"
  /\ repeated = FALSE
  /\ threw = FALSE
  /\ calls = 0

CalculatorConstructed ==
  /\ weights = <<Lace, Worsted, Bulky>>
  /\ suggestions = StandardSuggestions
  /\ weightById = buildLookups(<<Lace, Worsted, Bulky>>)
  /\ op = "constructor"
  /\ strandIds = <<>>
  /\ thickness = 0
  /\ hex = Undefined
  /\ hexColors = <<>>
  /\ ret = Undefined

\* setNeedleSize(mm)
SetNeedleSize ==
  \E mm \in NeedleSizes :
    /\ needleSize' = mm
    /\ called' = "setNeedleSize"
    /\ repeated' = FALSE
    /\ threw' = FALSE
    /\ calls' = 0
    /\ UNCHANGED <<fabricMesh, fabricGeometry, originalPositions, positions, scene, resources,
                   texture, rendererDisposed, time, animationId, isAnimating, pending,
                   yarnThickness, strands, colors>>

\* render(strands, combinedThickness)
Render ==
  \E arg \in StrandArguments, combinedThickness \in CombinedThicknesses :
    LET strandList == IF arg = Undefined THEN <<>> ELSE arg.strands
        newThickness == IF combinedThickness # 0 THEN combinedThickness
                        ELSE DefaultYarnThickness
    IN /\ Len(resources) + 3 <= MaxResources
       /\ strands' = strandList
       /\ yarnThickness' = newThickness
       /\ colors' = [i \in DOMAIN strandList |-> strandList[i].color]
       /\ IF Len(strandList) = 0
          THEN Install(createPlaceholder(CurrentMeshState))
          ELSE Install(createFabric([CurrentMeshState EXCEPT !.yarnThickness = newThickness],
                                    strandList))
       /\ called' = "render"
       /\ repeated' = FALSE
       /\ threw' = FALSE
       /\ calls' = IF Len(strandList) = 0 THEN 1 ELSE IF calls = 1 THEN 2 ELSE 0
       /\ UNCHANGED <<rendererDisposed, time, animationId, isAnimating, pending, needleSize>>

\* render(strands, combinedThickness) on a non-empty list when createYarnTexture
\* raises (getContext('2d') gives null, or a strand has no colour to read):
\* createFabric has taken the old mesh out of the scene, disposed of it and made
\* the new geometry, and the exception leaves render.
RenderRaises ==
  \E arg \in StrandArguments, combinedThickness \in CombinedThicknesses :
    /\ arg # Undefined
    /\ Len(arg.strands) > 0
    /\ Len(resources) + 3 <= MaxResources
    /\ strands' = arg.strands
    /\ yarnThickness' = IF combinedThickness # 0 THEN combinedThickness
                        ELSE DefaultYarnThickness
    /\ colors' = [i \in DOMAIN arg.strands |-> arg.strands[i].color]
    /\ scene' = IF fabricMesh # Null THEN scene \ {fabricMesh} ELSE scene
    /\ resources' =
         LET old == fabricMesh
             disposedGeometry == IF old # Null THEN dispose(resources, old.geometry)
                                 ELSE resources
             disposedMap == IF old # Null /\ old.map # 0
                            THEN dispose(disposedGeometry, old.map) ELSE disposedGeometry
             kept == IF old # Null THEN dispose(disposedMap, old.material) ELSE disposedMap
         IN kept \o <<Resource("geometry")>>
    /\ called' = "render"
    /\ repeated' = FALSE
    /\ threw' = TRUE
    /\ calls' = 0
    /\ UNCHANGED <<fabricMesh, fabricGeometry, originalPositions, positions, texture,
                   rendererDisposed, time, animationId, isAnimating, pending, needleSize>>

\* clear()
Clear ==
  /\ Len(resources) + 2 <= MaxResources
  /\ Install(createPlaceholder(CurrentMeshState))
  /\ called' = "clear"
  /\ repeated' = (called = "clear")
  /\ threw' = FALSE
  /\ calls' = IF calls = 2 THEN 3 ELSE 0
  /\ UNCHANGED <<rendererDisposed, time, animationId, isAnimating, pending, needleSize,
                 yarnThickness, strands, colors>>

\* createYarnTexture(strands), called on its own: the texture is handed to the
\* caller, who owns it, and attached to no mesh.
CreateYarnTexture ==
  \E arg \in TextureArguments :
    /\ texture' = TextureOf(0, CurrentMeshState, arg,
                            createYarnTexture(CurrentMeshState, arg))
    /\ called' = "createYarnTexture"
    /\ repeated' = FALSE
    /\ threw' = FALSE
    /\ calls' = 0
    /\ UNCHANGED <<fabricMesh, fabricGeometry, originalPositions, positions, scene,
                   resources, rendererDisposed, time, animationId, isAnimating, pending,
                   needleSize, yarnThickness, strands, colors>>

\* One run of the animate closure of startAnimation: it requests the next frame,
\* advances the time, deforms the mesh and draws.
animate(ran) ==
  /\ time < MaxFrames
  /\ animationId' = time + 1
  /\ pending' = (pending \ ran) \cup {time + 1}
  /\ time' = time + 1
  /\ positions' = IF fabricMesh # Null /\ fabricGeometry # 0
                  THEN animateFabric(positions, originalPositions.array, time + 1)
                  ELSE positions

\* The browser runs a pending frame callback.
Frame ==
  \E handle \in pending :
    /\ animate({handle})
    /\ called' = "frame"
    /\ repeated' = FALSE
    /\ threw' = FALSE
    /\ UNCHANGED <<fabricMesh, fabricGeometry, originalPositions, scene, resources, texture,
                   rendererDisposed, isAnimating, needleSize, yarnThickness, strands, colors,
                   calls>>

\* startAnimation()
StartAnimation ==
  /\ ~isAnimating
  /\ isAnimating' = TRUE
  /\ animate({})
  /\ called' = "startAnimation"
  /\ repeated' = FALSE
  /\ threw' = FALSE
  /\ calls' = 0
  /\ UNCHANGED <<fabricMesh, fabricGeometry, originalPositions, scene, resources, texture,
                 rendererDisposed, needleSize, yarnThickness, strands, colors>>

\* startAnimation() without its first line: a second loop is started.
StartAnimationUnguarded ==
  /\ isAnimating
  /\ animate({})
  /\ called' = "startAnimation"
  /\ repeated' = FALSE
  /\ threw' = FALSE
  /\ calls' = 0
  /\ UNCHANGED <<fabricMesh, fabricGeometry, originalPositions, scene, resources, texture,
                 rendererDisposed, isAnimating, needleSize, yarnThickness, strands, colors>>

\* startAnimation() while the loop runs returns at once.
StartAnimationAgain ==
  /\ isAnimating
  /\ called' = "startAnimation"
  /\ repeated' = FALSE
  /\ threw' = FALSE
  /\ calls' = 0
  /\ UNCHANGED <<fabricMesh, fabricGeometry, originalPositions, positions, scene, resources,
                 texture, rendererDisposed, time, animationId, isAnimating, pending,
                 needleSize, yarnThickness, strands, colors>>

\* The handle forgotten without cancelAnimationFrame.
stopAnimationNoCancel ==
  /\ pending' = pending
  /\ animationId' = 0
  /\ isAnimating' = FALSE

\* stopAnimation(): the requested frame is cancelled and the handle set to null.
stopAnimation ==
  /\ pending' = IF animationId # 0 THEN pending \ {animationId} ELSE pending
  /\ animationId' = 0
  /\ isAnimating' = FALSE

\* stopAnimation()
StopAnimation ==
  /\ stopAnimation
  /\ called' = "stopAnimation"
  /\ repeated' = FALSE
  /\ threw' = FALSE
  /\ calls' = 0
  /\ UNCHANGED <<fabricMesh, fabricGeometry, originalPositions, positions, scene, resources,
                 texture, rendererDisposed, time, needleSize, yarnThickness, strands, colors>>

\* destroy(): the mesh is taken out of the scene and its geometry, map and
\* material are disposed; this.fabricMesh keeps referring to it.
Destroy ==
  /\ stopAnimation
  /\ IF fabricMesh # Null
     THEN /\ scene' = scene \ {fabricMesh}
          /\ resources' =
               LET disposedGeometry == dispose(resources, fabricMesh.geometry)
                   disposedMap == IF fabricMesh.map # 0
                                  THEN dispose(disposedGeometry, fabricMesh.map)
                                  ELSE disposedGeometry
               IN dispose(disposedMap, fabricMesh.material)
     ELSE UNCHANGED <<scene, resources>>
  /\ rendererDisposed' = TRUE
  /\ called' = "destroy"
  /\ repeated' = (called = "destroy")
  /\ threw' = FALSE
  /\ calls' = 0
  /\ UNCHANGED <<fabricMesh, fabricGeometry, originalPositions, positions, texture, time,
                 needleSize, yarnThickness, strands, colors>>

NextSwatch ==
  \/ Render /\ UNCHANGED <<calcVars, yarnVars>>
  \/ Clear /\ UNCHANGED <<calcVars, yarnVars>>
  \/ Frame /\ UNCHANGED <<calcVars, yarnVars>>
  \/ StartAnimation /\ UNCHANGED <<calcVars, yarnVars>>
  \/ StartAnimationAgain /\ UNCHANGED <<calcVars, yarnVars>>
  \/ StopAnimation /\ UNCHANGED <<calcVars, yarnVars>>
  \/ Destroy /\ UNCHANGED <<calcVars, yarnVars>>

(***************************************************************************)
(* YarnRenderer                                                            *)
(***************************************************************************)
\* Strands a caller passes: one without a thickness and a very thin one.
YarnStrands ==
  {[color |-> WellFormedColor, thickness |-> Undefined],
   [color |-> White, thickness |-> Frac(1, 20)]}
YarnStrandLists == BoundedSeq(YarnStrands, MaxYarnStrands)
\* this.canvas.clientWidth when the window is resized
CanvasWidths == {400, 800}
animationDuration == 2

YarnResource(kind, color) == [kind |-> kind, disposed |-> FALSE, color |-> color]

\* A THREE.Object3D: its geometry and material (0: none), its children and
\* its userData.
Object3D(kind, geometry, material, children, userData) ==
  [kind |-> kind, geometry |-> geometry, material |-> material, children |-> children,
   userData |-> userData]

\* rotation.y = twist * pi + idle * 0.005
Rotation(twist, idle) == [twist |-> twist, idle |-> idle]

\* The closure () => this.onResize() written at the given line: each
\* evaluation of the arrow function makes a new function object.
ResizeClosure(line) == [closure |-> "() => this.onResize()", line |-> line]

\* The materials of an object and of its children.
RECURSIVE YarnMaterialsOf(_)
YarnMaterialsOf(object) ==
  ({object.material} \ {0})
    \cup UNION {YarnMaterialsOf(object.children[i]) : i \in DOMAIN object.children}

\* disposeObject(object): its geometry, its material, then its children.
RECURSIVE disposeObject(_, _)
RECURSIVE disposeChildrenFrom(_, _, _)
disposeObject(res, object) ==
  LET disposedGeometry == IF object.geometry # 0 THEN dispose(res, object.geometry) ELSE res
      disposedMaterial == IF object.material # 0
                          THEN dispose(disposedGeometry, object.material)
                          ELSE disposedGeometry
  IN disposeChildrenFrom(disposedMaterial, object.children, 1)

disposeChildrenFrom(res, children, i) ==
  IF i > Len(children) THEN res
  ELSE disposeChildrenFrom(disposeObject(res, children[i]), children, i + 1)

\* ---- the numbers of createTwistingStrand ----
\* Angles are in hundredths of a radian (pi = 3.14); Math.cos and Math.sin are
\* Sin10 in tenths, and a value that is not finite gives NaN.
MathSin(c) == Frac(Sin10(c), 10)
MathCos(c) == Frac(Sin10(c + 157), 10)

\* The largest r with r * r <= n, sought between lo and hi.
RECURSIVE ISqrt(_, _, _)
ISqrt(n, lo, hi) ==
  IF lo >= hi THEN lo
  ELSE LET mid == (lo + hi + 1) \div 2
       IN IF mid * mid <= n THEN ISqrt(n, mid, hi) ELSE ISqrt(n, lo, mid - 1)

\* Math.sqrt, to three decimals, of a number taken to four decimals; NaN for NaN
\* and for a negative number.
MathSqrt(q) ==
  IF ~IsFinite(q) THEN (IF q.num = 1 THEN q ELSE Frac(0, 0))
  ELSE IF q.num < 0 THEN Frac(0, 0)
  ELSE Reduce(Frac(ISqrt(((q.num * 10000) \div q.den) * 100, 0, 30000), 1000))

\* Math.atan of a ratio r in 0..1 given in thousandths, by
\* r * (pi / 4 + 0.273 * (1 - r)).
Atan(r) == (r * (785 + (273 * (1000 - r)) \div 1000)) \div 10000

\* Math.atan2(z, x) of two finite numbers
MathAtan2(z, x) ==
  LET az == FracAbs(z)
      ax == FracAbs(x)
      a == IF az.num = 0 /\ ax.num = 0 THEN 0
           ELSE IF FracGeq(ax, az)
           THEN Atan((1000 * az.num * ax.den) \div (az.den * ax.num))
           ELSE 157 - Atan((1000 * ax.num * az.den) \div (ax.den * az.num))
      b == IF x.num < 0 THEN 314 - a ELSE a
  IN IF z.num < 0 THEN -b ELSE b

\* a > b as JavaScript compares numbers: false when either is NaN.
FracGt(a, b) ==
  /\ ~(a.den = 0 /\ a.num = 0)
  /\ ~(b.den = 0 /\ b.num = 0)
  /\ a.num * b.den > b.num * a.den

\* One branch for every radius: the offset's direction, found by dividing by
\* the helix radius, turned by the helix angle.
strandVertexNormalised(i, length, radius, offset) ==
  LET t == Frac(i, StrandSegments - 1)
      y == FracMul(FracSub(t, Frac(1, 2)), Num(length))
      helixAngle == (i * 157 * 8) \div (StrandSegments - 1)
      helixRadius == MathSqrt(FracAdd(FracMul(offset.x, offset.x), FracMul(offset.z, offset.z)))
      dirX == FracDiv(offset.x, helixRadius)
      dirZ == FracDiv(offset.z, helixRadius)
  IN [x |-> FracMul(FracSub(FracMul(dirX, MathCos(helixAngle)),
                            FracMul(dirZ, MathSin(helixAngle))), helixRadius),
      y |-> y,
      z |-> FracMul(FracAdd(FracMul(dirZ, MathCos(helixAngle)),
                            FracMul(dirX, MathSin(helixAngle))), helixRadius)]

\* The loop body of createTwistingStrand at i: the vertex of the helical branch
\* when helixRadius > 0.01, of the fixed-radius wave otherwise.
strandVertex(i, length, radius, offset) ==
  LET t == Frac(i, StrandSegments - 1)
      y == FracMul(FracSub(t, Frac(1, 2)), Num(length))
      \* twistAmount is 0.5 or 4.0; helixAngle = t * pi * twistAmount
      twice == IF offset.x.num = 0 /\ offset.x.den # 0 /\ offset.z.num = 0 /\ offset.z.den # 0
               THEN 1 ELSE 8
      helixAngle == (i * 157 * twice) \div (StrandSegments - 1)
      helixRadius == MathSqrt(FracAdd(FracMul(offset.x, offset.x), FracMul(offset.z, offset.z)))
  IN IF FracGt(helixRadius, Frac(1, 100))
     THEN LET baseAngle == MathAtan2(offset.z, offset.x)
          IN [x |-> FracMul(MathCos(baseAngle + helixAngle), helixRadius),
              y |-> y,
              z |-> FracMul(MathSin(baseAngle + helixAngle), helixRadius)]
     ELSE LET waveRadius == FracMul(radius, Frac(2, 100))
          IN [x |-> FracMul(MathCos(helixAngle), waveRadius),
              y |-> y,
              z |-> FracMul(MathSin(helixAngle), waveRadius)]

\* createTwistingStrand(color, length, radius, offset, twistIntensity), the
\* resources it creates taking the ids after base: the BufferGeometry of the
\* centre line, the TubeGeometry, the material, and addFiberHairsHelix's hair
\* geometry and hair material. userData keeps initialPositions and
\* twistIntensity, and here the radius and the offset the call was given.
createTwistingStrand(base, color, length, radius, offset, twistIntensity) ==
  [strand |->
     Object3D("strand", base + 2, base + 3,
              <<Object3D("hairs", base + 4, base + 5, <<>>, [none |-> TRUE])>>,
              [twistIntensity |-> twistIntensity,
               initialPositions |->
                 [v \in 1..StrandSegments |-> strandVertex(v - 1, length, radius, offset)],
               length |-> length, radius |-> radius, offset |-> offset]),
   created |->
     << YarnResource("BufferGeometry", Undefined),
        YarnResource("TubeGeometry", Undefined),
        YarnResource("MeshStandardMaterial", [color |-> color, scalar |-> Num(1)]),
        YarnResource("BufferGeometry", Undefined),
        YarnResource("LineBasicMaterial", [color |-> color, scalar |-> Frac(8, 10)]) >>]

\* strand.thickness || 2.0
thicknessOrDefault(strand) ==
  IF strand.thickness = Undefined THEN Num(2)
  ELSE IF strand.thickness.num = 0 THEN Num(2) ELSE strand.thickness

RECURSIVE sumThickness(_, _)
sumThickness(list, i) ==
  IF i > Len(list) THEN Num(0)
  ELSE FracAdd(thicknessOrDefault(list[i]), sumThickness(list, i + 1))

\* The strands.map of renderCombinedStrands: the strand meshes and the
\* resources created for them, the first taking the ids after base.
strandMeshes(base, list) ==
  LET strandCount == Len(list)
      avgThickness == FracDiv(sumThickness(list, 1), Num(strandCount))
      arrangeRadius == IF strandCount > 1 THEN FracMul(avgThickness, Frac(15, 100)) ELSE Num(0)
  IN [index \in DOMAIN list |->
        LET strand == list[index]
            \* angle = (index / strandCount) * Math.PI * 2, index counted from 0
            angle == ((index - 1) * 628) \div strandCount
            offset == [x |-> FracMul(MathCos(angle), arrangeRadius),
                       z |-> FracMul(MathSin(angle), arrangeRadius)]
        IN createTwistingStrand(base + 5 * (index - 1), strand.color, 6,
                                FracMul(Frac(6, 100), FracMul(thicknessOrDefault(strand), Frac(1, 2))),
                                offset, Num(1))]

RECURSIVE createdFrom(_, _)
createdFrom(meshes, i) ==
  IF i > Len(meshes) THEN <<>> ELSE meshes[i].created \o createdFrom(meshes, i + 1)

easeInOutCubic(t) ==
  IF 2 * t.num < t.den
  THEN FracMul(Num(4), FracCube(t))
  ELSE FracSub(Num(1),
               FracMul(FracCube(FracSub(Num(2), FracMul(Num(2), t))), Frac(1, 2)))

\* The constructor and init(): an empty scene, the resize listener of line 68
\* registered, and animate() run once, which requests frame 1.
YarnRendererConstructed ==
  /\ yarnMesh = Null
  /\ yarnScene = {}
  /\ yarnResources = <<>>
  /\ yarnRendererDisposed = FALSE
  /\ yarnAnimationId = 1
  /\ yarnIsAnimating = FALSE
  /\ yarnPending = {1}
  /\ yarnFrames = 1
  /\ animationStartTime = 0
  /\ now = 0
  /\ rotation = Rotation(Num(0), 0)
  /\ resizeListeners = {ResizeClosure(68)}
  /\ rendererSize = 800
  /\ yarnCalled = "constructor"
  /\ yarnRepeated = FALSE
  /\ yarnThrew = FALSE

\* The removal of the installed yarn mesh that renderCombinedStrands,
\* renderSingleYarn and clear begin with.
removeYarnMesh ==
  [scene |-> IF yarnMesh # Null THEN yarnScene \ {yarnMesh} ELSE yarnScene,
   resources |-> IF yarnMesh # Null THEN disposeObject(yarnResources, yarnMesh)
                 ELSE yarnResources]

\* renderCombinedStrands(strands), which ends with startTwistAnimation()
RenderCombinedStrands ==
  \E list \in YarnStrandLists :
    LET removed == removeYarnMesh
        meshes == strandMeshes(Len(yarnResources), list)
        children == [i \in DOMAIN meshes |-> meshes[i].strand]
        group == Object3D("group", 0, 0, children, [strands |-> children])
    IN /\ Len(yarnResources) + 5 * Len(list) <= MaxYarnResources
       /\ yarnResources' = removed.resources \o createdFrom(meshes, 1)
       /\ yarnMesh' = group
       /\ yarnScene' = removed.scene \cup {group}
       /\ rotation' = Rotation(Num(0), 0)
       /\ yarnIsAnimating' = TRUE
       /\ animationStartTime' = now
       /\ yarnCalled' = "renderCombinedStrands"
       /\ yarnRepeated' = FALSE
       /\ yarnThrew' = FALSE
       /\ UNCHANGED <<yarnRendererDisposed, yarnAnimationId, yarnPending, yarnFrames, now,
                      resizeListeners, rendererSize>>

\* renderCombinedStrands(strands) when the createTwistingStrand call for the
\* strand at index failing raises: the old mesh is out of the scene and disposed
\* of, the strands before it are built, and of the failing strand the first
\* made resources exist (the exception may come from any constructor);
\* createTwistingStrand logs and rethrows, and the exception leaves
\* renderCombinedStrands before this.yarnMesh is assigned.
RenderCombinedStrandsRaises ==
  \E list \in YarnStrandLists :
    \E failing \in DOMAIN list, made \in 0..4 :
      LET removed == removeYarnMesh
          meshes == strandMeshes(Len(yarnResources), list)
      IN /\ Len(yarnResources) + 5 * Len(list) <= MaxYarnResources
         /\ yarnResources' = removed.resources
                               \o createdFrom(SubSeq(meshes, 1, failing - 1), 1)
                               \o SubSeq(meshes[failing].created, 1, made)
         /\ yarnScene' = removed.scene
         /\ yarnCalled' = "renderCombinedStrands"
         /\ yarnRepeated' = FALSE
         /\ yarnThrew' = TRUE
         /\ UNCHANGED <<yarnMesh, yarnRendererDisposed, yarnAnimationId, yarnIsAnimating,
                        yarnPending, yarnFrames, animationStartTime, now, rotation,
                        resizeListeners, rendererSize>>

\* renderSingleYarn(color): a sphere and its material
RenderSingleYarn ==
  \E color \in {WellFormedColor} :
    LET removed == removeYarnMesh
        ball == Object3D("ball", Len(yarnResources) + 1, Len(yarnResources) + 2, <<>>,
                         [none |-> TRUE])
    IN /\ Len(yarnResources) + 2 <= MaxYarnResources
       /\ yarnResources' = removed.resources
                             \o << YarnResource("SphereGeometry", Undefined),
                                   YarnResource("MeshStandardMaterial",
                                                [color |-> color, scalar |-> Num(1)]) >>
       /\ yarnMesh' = ball
       /\ yarnScene' = removed.scene \cup {ball}
       /\ rotation' = Rotation(Num(0), 0)
       /\ yarnCalled' = "renderSingleYarn"
       /\ yarnRepeated' = FALSE
       /\ yarnThrew' = FALSE
       /\ UNCHANGED <<yarnRendererDisposed, yarnAnimationId, yarnIsAnimating, yarnPending,
                      yarnFrames, animationStartTime, now, resizeListeners, rendererSize>>

\* Every material recoloured, the fibre hairs' too.
updateColorsEveryMaterial(res, meshes, list) ==
  [id \in DOMAIN res |->
     IF \E index \in DOMAIN meshes :
          /\ index \in DOMAIN list
          /\ id \in YarnMaterialsOf(meshes[index])
     THEN LET index == CHOOSE i \in DOMAIN meshes :
                         i \in DOMAIN list /\ id \in YarnMaterialsOf(meshes[i])
          IN [res[id] EXCEPT !.color = [color |-> list[index].color, scalar |-> Num(1)]]
     ELSE res[id]]

\* The forEach of updateColors: meshes[index].material.color.set(new
\* THREE.Color(strand.color)) for every index that has a mesh.
updateColors(res, meshes, list) ==
  [id \in DOMAIN res |->
     IF \E index \in DOMAIN meshes : index \in DOMAIN list /\ meshes[index].material = id
     THEN LET index == CHOOSE i \in DOMAIN meshes :
                         i \in DOMAIN list /\ meshes[i].material = id
          IN [res[id] EXCEPT !.color = [color |-> list[index].color, scalar |-> Num(1)]]
     ELSE res[id]]

\* updateColors(strands): it returns at once when there is no yarn mesh or the
\* mesh has no userData.strands (a yarn ball).
UpdateColors ==
  \E list \in YarnStrandLists :
    /\ yarnResources' =
         IF yarnMesh = Null THEN yarnResources
         ELSE IF yarnMesh.kind # "group" THEN yarnResources
         ELSE updateColors(yarnResources, yarnMesh.userData.strands, list)
    /\ yarnCalled' = "updateColors"
    /\ yarnRepeated' = FALSE
    /\ yarnThrew' = FALSE
    /\ UNCHANGED <<yarnMesh, yarnScene, yarnRendererDisposed, yarnAnimationId,
                   yarnIsAnimating, yarnPending, yarnFrames, animationStartTime, now,
                   rotation, resizeListeners, rendererSize>>

clear ==
  /\ yarnScene' = removeYarnMesh.scene
  /\ yarnResources' = removeYarnMesh.resources
  /\ yarnMesh' = Null

\* clear()
YarnClear ==
  /\ clear
  /\ yarnCalled' = "clear"
  /\ yarnRepeated' = (yarnCalled = "clear")
  /\ yarnThrew' = FALSE
  /\ UNCHANGED <<yarnRendererDisposed, yarnAnimationId, yarnIsAnimating, yarnPending,
                 yarnFrames, animationStartTime, now, rotation, resizeListeners, rendererSize>>

\* One run of animate(): it requests the next frame, advances the twist
\* animation when one runs (updateTwistAnimation), turns an idle mesh by 0.005
\* and draws.
YarnFrame ==
  \E handle \in yarnPending :
    LET elapsed == now - animationStartTime
        progress == IF elapsed >= animationDuration THEN Num(1)
                    ELSE Reduce(Frac(elapsed, animationDuration))
        twisted == IF yarnIsAnimating /\ yarnMesh # Null
                   THEN Rotation(FracMul(easeInOutCubic(progress), Num(4)), 0)
                   ELSE rotation
        stillAnimating == yarnIsAnimating /\ ~FracGeq(progress, Num(1))
    IN /\ yarnFrames < MaxYarnFrames
       /\ yarnAnimationId' = yarnFrames + 1
       /\ yarnPending' = (yarnPending \ {handle}) \cup {yarnFrames + 1}
       /\ yarnFrames' = yarnFrames + 1
       /\ yarnIsAnimating' = stillAnimating
       /\ rotation' = IF yarnMesh # Null /\ ~stillAnimating
                      THEN Rotation(twisted.twist, twisted.idle + 1)
                      ELSE twisted
       /\ UNCHANGED <<yarnMesh, yarnScene, yarnResources, yarnRendererDisposed,
                      animationStartTime, now, resizeListeners, rendererSize, yarnCalled,
                      yarnRepeated, yarnThrew>>

\* A second passes.
TimePasses ==
  /\ now < MaxClock
  /\ now' = now + 1
  /\ UNCHANGED <<yarnMesh, yarnScene, yarnResources, yarnRendererDisposed, yarnAnimationId,
                 yarnIsAnimating, yarnPending, yarnFrames, animationStartTime, rotation,
                 resizeListeners, rendererSize, yarnCalled, yarnRepeated, yarnThrew>>

\* The window is resized: every registered listener runs, and each calls
\* onResize(), which sets the renderer's size from the canvas.
Resize ==
  \E width \in CanvasWidths :
    /\ rendererSize' = IF resizeListeners # {} THEN width ELSE rendererSize
    /\ UNCHANGED <<yarnMesh, yarnScene, yarnResources, yarnRendererDisposed, yarnAnimationId,
                   yarnIsAnimating, yarnPending, yarnFrames, animationStartTime, now,
                   rotation, resizeListeners, yarnCalled, yarnRepeated, yarnThrew>>

\* destroy(): the pending frame is cancelled, the mesh cleared, the renderer
\* disposed, and removeEventListener is handed the closure of line 525.
YarnDestroy ==
  /\ yarnPending' = IF yarnAnimationId # 0 THEN yarnPending \ {yarnAnimationId}
                    ELSE yarnPending
  /\ clear
  /\ yarnRendererDisposed' = TRUE
  /\ resizeListeners' = resizeListeners \ {ResizeClosure(525)}
  /\ yarnCalled' = "destroy"
  /\ yarnRepeated' = (yarnCalled = "destroy")
  /\ yarnThrew' = FALSE
  /\ UNCHANGED <<yarnAnimationId, yarnIsAnimating, yarnFrames, animationStartTime, now,
                 rotation, rendererSize>>

InitSwatch == SwatchRendererConstructed /\ CalculatorConstructed /\ YarnRendererConstructed

SpecSwatch == InitSwatch /\ [][NextSwatch]_vars

\* The texture synthesizer: createYarnTexture called on its own and by render,
\* between needle changes, frames and renders of no strands, which install the
\* placeholder as clear() does.
NextTexture ==
  \/ CreateYarnTexture /\ UNCHANGED <<calcVars, yarnVars>>
  \/ SetNeedleSize /\ UNCHANGED <<calcVars, yarnVars>>
  \/ Render /\ UNCHANGED <<calcVars, yarnVars>>
  \/ Frame /\ UNCHANGED <<calcVars, yarnVars>>

SpecTexture == InitSwatch /\ [][NextTexture]_vars

\* The YarnRenderer; YarnApp.destroy() destroys it and the SwatchRenderer.
NextYarn ==
  \/ RenderCombinedStrands /\ UNCHANGED <<calcVars, swatchVars>>
  \/ RenderSingleYarn /\ UNCHANGED <<calcVars, swatchVars>>
  \/ YarnClear /\ UNCHANGED <<calcVars, swatchVars>>
  \/ YarnFrame /\ UNCHANGED <<calcVars, swatchVars>>
  \/ TimePasses /\ UNCHANGED <<calcVars, swatchVars>>
  \/ Resize /\ UNCHANGED <<calcVars, swatchVars>>
  \/ YarnDestroy /\ UNCHANGED <<calcVars, swatchVars>>
  \/ Destroy /\ UNCHANGED <<calcVars, yarnVars>>

SpecYarn == InitSwatch /\ [][NextYarn]_vars

\* The calls that build and remove the yarn mesh.
NextStrands ==
  \/ RenderCombinedStrands /\ UNCHANGED <<calcVars, swatchVars>>
  \/ RenderSingleYarn /\ UNCHANGED <<calcVars, swatchVars>>
  \/ YarnClear /\ UNCHANGED <<calcVars, swatchVars>>
  \/ UpdateColors /\ UNCHANGED <<calcVars, swatchVars>>

SpecStrands == InitSwatch /\ [][NextStrands]_vars

\* YarnApp.clearResults(): clear() on the YarnRenderer, then on the
\* SwatchRenderer.
ClearResults == YarnClear /\ Clear /\ UNCHANGED calcVars

\* YarnApp.destroy(): destroy() on the YarnRenderer, then on the SwatchRenderer.
YarnAppDestroy == YarnDestroy /\ Destroy /\ UNCHANGED calcVars

\* The calls that install the meshes of the two renderers, and the
\* application's two teardown calls.
NextTeardown ==
  \/ Render /\ UNCHANGED <<calcVars, yarnVars>>
  \/ RenderSingleYarn /\ UNCHANGED <<calcVars, swatchVars>>
  \/ ClearResults
  \/ YarnAppDestroy

SpecTeardown == InitSwatch /\ [][NextTeardown]_vars

\* The render calls that raise, and the YarnRenderer's render call that
\* returns.
NextFailures ==
  \/ RenderRaises /\ UNCHANGED <<calcVars, yarnVars>>
  \/ RenderCombinedStrands /\ UNCHANGED <<calcVars, swatchVars>>
  \/ RenderCombinedStrandsRaises /\ UNCHANGED <<calcVars, swatchVars>>

SpecFailures == InitSwatch /\ [][NextFailures]_vars

\* The frame loops of the two renderers, the calls that start, stop and destroy
\* them, and a yarn ball for the YarnRenderer's frames to turn.
NextLoops ==
  \/ Frame /\ UNCHANGED <<calcVars, yarnVars>>
  \/ StartAnimation /\ UNCHANGED <<calcVars, yarnVars>>
  \/ StartAnimationAgain /\ UNCHANGED <<calcVars, yarnVars>>
  \/ StopAnimation /\ UNCHANGED <<calcVars, yarnVars>>
  \/ Destroy /\ UNCHANGED <<calcVars, yarnVars>>
  \/ RenderSingleYarn /\ UNCHANGED <<calcVars, swatchVars>>
  \/ YarnFrame /\ UNCHANGED <<calcVars, swatchVars>>
  \/ YarnDestroy /\ UNCHANGED <<calcVars, swatchVars>>

SpecLoops == InitSwatch /\ [][NextLoops]_vars

(***************************************************************************)
(* The calculator's operations as actions. A caller constructs the         *)
(* calculator from one catalog and calls its methods, in any order and any *)
(* number of times, on an id sequence or a thickness drawn at the start.   *)
(***************************************************************************)
InitCalc ==
  /\ SwatchRendererConstructed
  /\ YarnRendererConstructed
  /\ \E data \in WeightsData :
       /\ weights = data.weights
       /\ suggestions = data.suggestedCombinations
       /\ weightById = buildLookups(data.weights)
  /\ op = "constructor"
  /\ \/ strandIds \in BoundedSeq(Ids, MaxStrands) /\ thickness = 0
     \/ strandIds = <<>> /\ thickness \in 0..MaxThickness
  /\ hex = Undefined
  /\ hexColors = <<>>
  /\ ret = Undefined

Called(name, value) ==
  /\ op' = name
  /\ ret' = value
  /\ UNCHANGED <<weights, suggestions, weightById, strandIds, thickness, hex, hexColors>>
  /\ UNCHANGED <<swatchVars, yarnVars>>

CalculateCombinedWeight ==
  Called("calculateCombinedWeight", calculateCombinedWeight(strandIds))

GetCombinedWPI ==
  Called("getCombinedWPI", getCombinedWPI(strandIds))

InterpolateWPI ==
  Called("interpolateWPI", interpolateWPI(thickness))

EstimateCombinedGauge ==
  Called("estimateCombinedGauge", estimateCombinedGauge(strandIds))

GetRecommendedNeedleSize ==
  Called("getRecommendedNeedleSize", getRecommendedNeedleSize(strandIds))

MatchesSuggestion ==
  Called("matchesSuggestion", matchesSuggestion(strandIds))

GenerateReport ==
  Called("generateReport", generateReport(strandIds))

NextCalc ==
  \/ CalculateCombinedWeight
  \/ GetCombinedWPI
  \/ InterpolateWPI
  \/ EstimateCombinedGauge
  \/ GetRecommendedNeedleSize
  \/ MatchesSuggestion
  \/ GenerateReport

SpecCalc == InitCalc /\ [][NextCalc]_vars

(***************************************************************************)
(* The colour functions as actions, each applied to a string or to a list  *)
(* of colours drawn at the start.                                          *)
(***************************************************************************)
ColorLists == BoundedSeq({WellFormedColor, White, MalformedColor}, MaxColors)

InitColor ==
  /\ SwatchRendererConstructed
  /\ YarnRendererConstructed
  /\ weights = <<Lace, Worsted, Bulky>>
  /\ suggestions = StandardSuggestions
  /\ weightById = buildLookups(<<Lace, Worsted, Bulky>>)
  /\ op = "constructor"
  /\ strandIds = <<>>
  /\ thickness = 0
  /\ \/ hex \in HexInputs /\ hexColors = <<>>
     \/ hex = Undefined /\ hexColors \in ColorLists
  /\ ret = Undefined

SwatchRendererHexToRgb == Called("SwatchRenderer.hexToRgb", hexToRgb(hex))

ColorManagerHexToRgb == Called("ColorManager.hexToRgb", ColorManager_hexToRgb(hex))

CalculateAverageColor == Called("calculateAverageColor", calculateAverageColor(hexColors))

NextColor ==
  \/ SwatchRendererHexToRgb
  \/ ColorManagerHexToRgb
  \/ CalculateAverageColor

SpecColor == InitColor /\ [][NextColor]_vars

(***************************************************************************)
(* Properties of the calculator.                                           *)
(***************************************************************************)
CatalogIds == {weights[i].id : i \in DOMAIN weights}
CatalogEntry(id) == CHOOSE w \in Range(weights) : w.id = id
Count(s, x) == Cardinality({i \in DOMAIN s : s[i] = x})
SameMultiset(a, b) ==
  /\ Len(a) = Len(b)
  /\ \A x \in Range(a) \cup Range(b) : Count(a, x) = Count(b, x)
Rearrangements(s) == {q \in [DOMAIN s -> Range(s)] : SameMultiset(q, s)}

RECURSIVE ThicknessOfIds(_, _)
ThicknessOfIds(S, ids) ==
  IF S = {} THEN 0
  ELSE LET id == CHOOSE x \in S : TRUE
       IN Count(ids, id) * CatalogEntry(id).thickness + ThicknessOfIds(S \ {id}, ids)

AllCataloged(ids) == ids # <<>> /\ Range(ids) \subseteq CatalogIds

\* C1: for a non-empty sequence of catalog ids, exactThickness is the sum of the
\* cataloged thicknesses with repeats counted (never an average), the same for
\* every permutation; strandCount is the length and strands lists the
\* categories in input order.
C1_ExactThicknessIsSum ==
  (op = "calculateCombinedWeight" /\ AllCataloged(strandIds)) =>
    /\ ret.exactThickness = ThicknessOfIds(Range(strandIds), strandIds)
    /\ \A p \in Rearrangements(strandIds) :
         calculateCombinedWeight(p).exactThickness = ret.exactThickness
    /\ ret.strandCount = Len(strandIds)
    /\ DOMAIN ret.strands = DOMAIN strandIds
    /\ \A i \in DOMAIN strandIds : ret.strands[i] = CatalogEntry(strandIds[i])

C1_Witness ==
  /\ op = "calculateCombinedWeight"
  /\ strandIds = <<2, 1, 2>>
  /\ Len(weights) = 3
  /\ ret.exactThickness = 9

Distance(t, w) == Abs(t - w.thickness)

\* C2: the category returned for a non-empty sequence minimises
\* |exactThickness - thickness| over the whole catalog, and among the entries
\* attaining the minimum it is the first in catalog order.
C2_NearestFirstMinimal ==
  (op = "calculateCombinedWeight" /\ strandIds # <<>>) =>
    \E k \in DOMAIN weights :
      /\ ret.weight = weights[k]
      /\ \A j \in DOMAIN weights :
           Distance(ret.exactThickness, weights[k]) <= Distance(ret.exactThickness, weights[j])
      /\ \A j \in 1..(k - 1) :
           Distance(ret.exactThickness, weights[k]) < Distance(ret.exactThickness, weights[j])

\* A tie between two catalog entries, the thicker of them first in the catalog.
C2_Witness ==
  /\ op = "calculateCombinedWeight"
  /\ strandIds # <<>>
  /\ \E j, k \in DOMAIN weights :
       /\ j < k
       /\ weights[j].thickness > weights[k].thickness
       /\ ret.weight = weights[j]
       /\ Distance(ret.exactThickness, weights[j]) = Distance(ret.exactThickness, weights[k])

\* C3: a call of calculateCombinedWeight returns the category that a call on any
\* permutation of its sequence, made in the state before it, returns; and no
\* call changes the calculator's own fields, so a repeated call returns the same.
C3_NearestOrderIndependent ==
  [][ /\ UNCHANGED <<weights, suggestions, weightById>>
      /\ (op' = "calculateCombinedWeight" /\ strandIds' # <<>>) =>
           \A p \in Rearrangements(strandIds') :
             calculateCombinedWeight(p).weight = ret'.weight ]_vars

C3_Witness ==
  /\ op = "calculateCombinedWeight"
  /\ strandIds = <<1, 2>>
  /\ Len(weights) = 3

SortedCatalog ==
  \A i \in 1..(Len(weights) - 1) :
    /\ weights[i].thickness < weights[i + 1].thickness
    /\ weights[i].wpi >= weights[i + 1].wpi

\* C4: interpolateWPI clamps outside the catalog (the first category's WPI below
\* the smallest thickness, the last category's WPI above the largest) and
\* interpolates linearly between the two bracketing entries inside.
C4_ClampsOutsideCatalog ==
  (op = "interpolateWPI" /\ SortedCatalog) =>
    /\ thickness < weights[1].thickness => ret = Num(weights[1].wpi)
    /\ thickness > weights[Len(weights)].thickness => ret = Num(weights[Len(weights)].wpi)
    /\ \A i \in 1..(Len(weights) - 1) :
         (weights[i].thickness <= thickness /\ thickness <= weights[i + 1].thickness) =>
           \* ret = wpi_i - (wpi_i - wpi_{i+1}) * (t - t_i) / (t_{i+1} - t_i)
           ret.num * (weights[i + 1].thickness - weights[i].thickness) =
             ret.den * ( weights[i].wpi * (weights[i + 1].thickness - weights[i].thickness)
                         - (weights[i].wpi - weights[i + 1].wpi) * (thickness - weights[i].thickness) )

\* C5: over a catalog of strictly increasing thickness and non-increasing WPI,
\* interpolateWPI is monotonic non-increasing in the thickness, inside and outside
\* the catalog's range, and returns a category's WPI at its cataloged thickness.
C5_WPIMonotonic ==
  (op = "interpolateWPI" /\ SortedCatalog) =>
    /\ IsFinite(ret)
    /\ \A t \in 0..(MaxThickness + 1) :
         /\ IsFinite(interpolateWPI(t))
         /\ thickness <= t => FracGeq(ret, interpolateWPI(t))
         /\ t <= thickness => FracGeq(interpolateWPI(t), ret)
    /\ \A i \in DOMAIN weights :
         weights[i].thickness = thickness => FracEq(ret, Num(weights[i].wpi))

C5_Witness ==
  /\ op = "interpolateWPI"
  /\ SortedCatalog
  /\ Len(weights) = 3
  /\ thickness > weights[3].thickness

\* n is Math.round(a / b) for b > 0: n - 1/2 <= a / b < n + 1/2.
RoundsTo(n, a, b) == 2 * n * b <= 2 * a + b /\ 2 * a + b < 2 * (n + 1) * b

\* C6: for a non-empty sequence of catalog ids, the gauge is the nearest
\* category's stitches and rows divided by r = exactThickness / nearest.thickness
\* and rounded to the nearest integer, with the category's 'per' label; it is at
\* most the nominal gauge when exactThickness >= nearest.thickness and the
\* nominal gauge when they are equal.
C6_GaugeScaledAndRounded ==
  (op = "estimateCombinedGauge" /\ AllCataloged(strandIds)) =>
    LET combined == calculateCombinedWeight(strandIds)
        nearest == combined.weight
        exact == combined.exactThickness
    IN /\ ret.stitches.den = 1 /\ ret.rows.den = 1
       /\ RoundsTo(ret.stitches.num, nearest.gauge.stitches * nearest.thickness, exact)
       /\ RoundsTo(ret.rows.num, nearest.gauge.rows * nearest.thickness, exact)
       /\ ret.per = nearest.gauge.per
       /\ exact >= nearest.thickness =>
            ret.stitches.num <= nearest.gauge.stitches /\ ret.rows.num <= nearest.gauge.rows
       /\ exact = nearest.thickness =>
            ret.stitches.num = nearest.gauge.stitches /\ ret.rows.num = nearest.gauge.rows

\* Two worsted strands in a catalog of worsted alone: 25 rows / 2 = 12.5 rounds to 13.
C6_Witness ==
  /\ op = "estimateCombinedGauge"
  /\ strandIds = <<2, 2>>
  /\ Len(weights) = 1
  /\ ret.stitches = Num(9)
  /\ ret.rows = Num(13)

\* C7: matchesSuggestion reports a match exactly when the multiset of input ids
\* equals the multiset of some suggestion's strand ids (so a sub- or
\* super-multiset never matches), gives the same answer for every permutation of
\* the input, and takes description and result from the first such suggestion.
C7_MatchIsMultisetEquality ==
  (op = "matchesSuggestion") =>
    LET equal == {k \in DOMAIN suggestions : SameMultiset(strandIds, suggestions[k].strands)}
    IN /\ ret.matches = (equal # {})
       /\ ret.matches =>
            LET first == CHOOSE k \in equal : \A j \in equal : k <= j
            IN /\ ret.description = suggestions[first].description
               /\ ret.result = CatalogEntry(suggestions[first].result)
       /\ \A p \in Rearrangements(strandIds) : matchesSuggestion(p) = ret

\* <<2, 1>> has the multiset of the second and of the third suggestion.
C7_Witness ==
  /\ op = "matchesSuggestion"
  /\ strandIds = <<2, 1>>
  /\ ret.matches
  /\ ret.description = "lace held with worsted"

EmptyGuarded ==
  {"calculateCombinedWeight", "getCombinedWPI", "estimateCombinedGauge",
   "getRecommendedNeedleSize", "generateReport"}

\* C8: on an empty sequence calculateCombinedWeight, getCombinedWPI,
\* estimateCombinedGauge, getRecommendedNeedleSize and generateReport return the
\* failure value (null), no category with it; on every non-empty sequence
\* calculateCombinedWeight returns a result holding a catalog category.
C8_EmptyInputFails ==
  /\ (op \in EmptyGuarded /\ strandIds = <<>>) => ret = Null
  /\ (op = "calculateCombinedWeight" /\ strandIds # <<>>) =>
       /\ ret # Null
       /\ ret.weight \in Range(weights)
       /\ ret.strandCount = Len(strandIds)

C8_Witness ==
  /\ op = "generateReport"
  /\ strandIds = <<>>
  /\ ret = Null

\* C20: for a non-empty sequence getRecommendedNeedleSize returns the needle
\* size (mm and US label) and the name of the catalog entry that
\* calculateCombinedWeight selects for the same sequence, as cataloged: it is not
\* scaled by exactThickness / thickness.
C20_NeedleOfNearestCategory ==
  (op = "getRecommendedNeedleSize" /\ strandIds # <<>>) =>
    LET nearest == calculateCombinedWeight(strandIds).weight
    IN /\ \E k \in DOMAIN weights : nearest = weights[k]
       /\ ret.mm = nearest.needleSize.mm
       /\ ret.us = nearest.needleSize.us
       /\ ret.weight = nearest.name

\* Worsted held with lace: thickness 5 is nearest to worsted (4), ratio 5/4.
C20_Witness ==
  /\ op = "getRecommendedNeedleSize"
  /\ strandIds = <<2, 1>>
  /\ Len(weights) = 3
  /\ ret.mm = 5
  /\ ret.us = "8"

(***************************************************************************)
(* Properties of the SwatchRenderer.                                       *)
(***************************************************************************)
Undisposed == {id \in DOMAIN resources : ~resources[id].disposed}
AttachedTo(mesh) == {mesh.geometry, mesh.material, mesh.map} \ {0}

\* C9: after render([]) ; render(strandsX) ; clear() the renderer is in the
\* observable state of a fresh instance: the untextured placeholder is installed,
\* it is the only mesh in the scene, and the undisposed resources are one
\* geometry and one material, the placeholder's.
C9_RoundTripLikeFresh ==
  calls = 3 =>
    /\ fabricMesh.kind = "placeholder"
    /\ fabricMesh.map = 0
    /\ scene = {fabricMesh}
    /\ Undisposed = {fabricMesh.geometry, fabricMesh.material}

\* C10: after any sequence of render and clear calls, every geometry, material
\* and texture ever created is disposed, except those attached to the installed
\* fabricMesh.
C10_DisposeBeforeReplace ==
  ~rendererDisposed => Undisposed \subseteq AttachedTo(fabricMesh)

(***************************************************************************)
(* Properties of destroy() and of the frame loops.                         *)
(***************************************************************************)
\* The geometries and materials of an object and of its children.
RECURSIVE YarnResourcesOf(_)
YarnResourcesOf(object) ==
  ({object.geometry, object.material} \ {0})
    \cup UNION {YarnResourcesOf(object.children[i]) : i \in DOMAIN object.children}

\* C11: when YarnRenderer.destroy() returns, no resize listener is registered
\* any more (a later resize of the window does not call onResize), the yarn mesh
\* is out of the scene with its geometries and materials disposed, and the WebGL
\* renderer is disposed; when SwatchRenderer.destroy() returns, the geometry, the
\* material and the texture of the installed mesh and the WebGL renderer are
\* disposed.
C11_DestroyReleasesEverything ==
  [][ /\ YarnDestroy =>
           /\ resizeListeners' = {}
           /\ yarnMesh' = Null
           /\ yarnScene' = {}
           /\ yarnRendererDisposed'
           /\ yarnMesh # Null =>
                \A id \in YarnResourcesOf(yarnMesh) : yarnResources'[id].disposed
      /\ Destroy =>
           /\ rendererDisposed'
           /\ fabricMesh # Null =>
                \A id \in AttachedTo(fabricMesh) : resources'[id].disposed ]_vars

\* C12: from the return of SwatchRenderer.stopAnimation() or destroy() until
\* startAnimation is called, no frame callback of the SwatchRenderer is pending,
\* its handle is null, isAnimating is false and no tick runs; from the return of
\* YarnRenderer.destroy() on, no frame callback of the YarnRenderer is pending
\* and none runs.
C12_NoFrameAfterStop ==
  /\ [](~isAnimating => pending = {} /\ animationId = 0)
  /\ [](yarnRendererDisposed => yarnPending = {})
  /\ [][ /\ ~isAnimating => (time' = time \/ called' = "startAnimation")
         /\ yarnRendererDisposed => yarnFrames' = yarnFrames ]_vars

\* Both renderers destroyed after each has run a frame.
C12_Witness ==
  /\ called = "destroy"
  /\ rendererDisposed
  /\ ~isAnimating
  /\ time = 2
  /\ yarnRendererDisposed
  /\ yarnFrames = 2

\* C13: whatever startAnimation, stopAnimation, render, clear and destroy calls
\* and frame callbacks have happened, at most one frame callback of the
\* SwatchRenderer is pending, and it is the one whose handle is stored; a tick
\* advances the time by one frame; and a startAnimation call made while the loop
\* runs requests no frame and runs no tick.
C13_OneFramePending ==
  /\ [](Cardinality(pending) <= 1 /\ pending \subseteq {animationId})
  /\ [][ /\ time' # time => time' = time + 1
         /\ (called' = "startAnimation" /\ isAnimating) =>
              UNCHANGED <<pending, animationId, time, positions>> ]_vars

\* startAnimation called on the running loop of a renderer showing a fabric,
\* before any frame has run.
C13_Witness ==
  /\ called = "startAnimation"
  /\ isAnimating
  /\ time = 1
  /\ pending = {1}
  /\ fabricMesh.kind = "fabric"

(***************************************************************************)
(* Properties of animateFabric.                                            *)
(***************************************************************************)
\* The vertices a side of the square plane has.
Side(array) == CHOOSE k \in 1..Len(array) : k * k = Len(array)
\* Vertex v lies in the first or last row or column of the plane.
OnBoundary(array, v) ==
  LET k == Side(array)
  IN (v - 1) % k \in {0, k - 1} \/ (v - 1) \div k \in {0, k - 1}
damping(p) == FracMax(Num(0), edgeFactor(p.x, p.y))

\* C14: on the fabric plane and on the placeholder plane, at every time, each
\* vertex of the outer boundary has z = 0 after animateFabric; the damping
\* factor max(0, edgeFactor) lies in [0, 1], is 1 at the centre vertex and does
\* not increase as |x| or |y| grows.
C14_EdgeDamping ==
  /\ \A v \in DOMAIN positions : OnBoundary(positions, v) => positions[v].z.num = 0
  /\ \A p \in PlanePoints :
       /\ FracGeq(damping(p), Num(0))
       /\ FracGeq(Num(1), damping(p))
       /\ (p.x.num = 0 /\ p.y.num = 0) => FracEq(damping(p), Num(1))
       /\ \A q \in PlanePoints :
            (FracGeq(FracAbs(q.x), FracAbs(p.x)) /\ FracGeq(FracAbs(q.y), FracAbs(p.y)))
              => FracGeq(damping(p), damping(q))

\* C15: after any number of ticks, renders and clears, every vertex has its
\* original x and y, originalPositions is the undeformed plane of the installed
\* geometry, and z is either 0 (no tick since the mesh was installed) or the
\* displacement of the original (x, y) at the current time, whatever ticks ran
\* before; a tick leaves originalPositions as it was.
C15_OnlyZFromOriginalAndTime ==
  /\ [](/\ DOMAIN positions = DOMAIN originalPositions.array
        /\ originalPositions.array \in {PlaceholderPlane, FabricPlane}
        /\ \A v \in DOMAIN positions :
             LET o == originalPositions.array[v]
             IN /\ positions[v].x = o.x
                /\ positions[v].y = o.y
                /\ \/ positions[v].z = o.z
                   \/ positions[v].z = displacement(o.x, o.y, time))
  /\ [][time' # time => originalPositions' = originalPositions]_vars

\* A fabric deformed by the second tick, its corner held at 0 and a vertex
\* inside displaced.
C15_Witness ==
  /\ called = "frame"
  /\ time = 2
  /\ fabricMesh.kind = "fabric"
  /\ positions[1].z.num = 0
  /\ \E v \in DOMAIN positions : positions[v].z.num # 0

(***************************************************************************)
(* Properties of the texture synthesizer.                                  *)
(***************************************************************************)
\* The last createYarnTexture call was given a non-empty strand list.
TextureOfStrands ==
  /\ texture # NoTexture
  /\ texture.strands # Undefined
  /\ Len(texture.strands.strands) > 0
\* The pass a stroke belongs to.
Pass(stroke) ==
  IF stroke.shape = "ascendingLeg" THEN 1 ELSE IF stroke.shape = "connection" THEN 2 ELSE 3
StrokesOfPass(commands, pass) == {i \in DOMAIN commands : Pass(commands[i]) = pass}

\* C16: the strokes of a createYarnTexture call on a non-empty strand list come
\* in three passes, none interleaved with another: the ascending legs of every
\* column, row and strand (a shadow and a main stroke for each of the two legs),
\* then the connections of every row, pair of adjacent columns and strand, then
\* the arcs of every column, row and strand (three strokes each).
C16_ThreeOrderedPasses ==
  TextureOfStrands =>
    LET commands == texture.canvas.commands
        g == StitchGrid(texture.needleSize, texture.yarnThickness)
        n == Len(texture.strands.strands)
    IN /\ \A i \in 1..(Len(commands) - 1) : Pass(commands[i]) <= Pass(commands[i + 1])
       /\ Cardinality(StrokesOfPass(commands, 1)) = g.cols * g.rows * n * 4
       /\ Cardinality(StrokesOfPass(commands, 2)) = g.rows * (g.cols - 1) * n * 3
       /\ Cardinality(StrokesOfPass(commands, 3)) = g.cols * g.rows * n * 3

\* createYarnTexture called with two strands, on the 6 mm needle, after a tick.
C16_Witness ==
  /\ called = "createYarnTexture"
  /\ TextureOfStrands
  /\ Len(texture.strands.strands) = 2
  /\ texture.needleSize = 60
  /\ time = 2
  /\ Len(texture.canvas.commands) > 0

\* The three inputs of a createYarnTexture call.
TextureInputs(t) == <<t.strands, t.needleSize, t.yarnThickness>>

NeutralGray(fillStyle) ==
  LET result == exec(fillStyle)
  IN /\ result.matched
     /\ parseInt16(result.groups[1]) = parseInt16(result.groups[2])
     /\ parseInt16(result.groups[2]) = parseInt16(result.groups[3])
     /\ parseInt16(result.groups[1]) \in 1..254

\* C18: render with an empty or missing strand list installs the untextured
\* placeholder mesh; createYarnTexture on an empty or missing strand list
\* returns a canvas filled with a neutral gray on which nothing is stroked.
C18_EmptyStrandsNeverAnError ==
  /\ (called = "render" /\ strands = <<>>) =>
       /\ fabricMesh.kind = "placeholder"
       /\ fabricMesh.map = 0
       /\ scene = {fabricMesh}
  /\ (/\ texture # NoTexture
      /\ (texture.strands = Undefined \/ Len(texture.strands.strands) = 0)) =>
       /\ texture.canvas.commands = <<>>
       /\ NeutralGray(texture.canvas.fillStyle)

(***************************************************************************)
(* Properties of the colour parsers.                                       *)
(***************************************************************************)
HexDigitChars ==
  {"0", "1", "2", "3", "4", "5", "6", "7", "8", "9",
   "a", "b", "c", "d", "e", "f", "A", "B", "C", "D", "E", "F"}
\* The characters after the optional '#'.
SixDigits(v) == IF Len(v.chars) > 0 /\ v.chars[1] = "#" THEN Tail(v.chars) ELSE v.chars
\* Exactly six hex digits, optionally prefixed with '#'.
WellFormed(v) ==
  /\ v \notin {Undefined, Null}
  /\ Len(SixDigits(v)) = 6
  /\ \A i \in 1..6 : SixDigits(v)[i] \in HexDigitChars
Byte(v, i) == 16 * hexDigitValue(SixDigits(v)[2 * i - 1]) + hexDigitValue(SixDigits(v)[2 * i])

\* C19: SwatchRenderer.hexToRgb and ColorManager.hexToRgb return the three
\* channel bytes of a well-formed input, the same with and without the '#'
\* prefix, and the triple (128, 128, 128) for every other input, never an absent
\* value; calculateAverageColor on a list with a malformed colour returns a
\* colour string.
C19_ColorParsingFailsSoft ==
  /\ op \in {"SwatchRenderer.hexToRgb", "ColorManager.hexToRgb"} =>
       ret = IF WellFormed(hex) THEN Rgb(Byte(hex, 1), Byte(hex, 2), Byte(hex, 3))
             ELSE Rgb(128, 128, 128)
  /\ op = "calculateAverageColor" => ret \notin {Undefined, Null, TypeError}

(***************************************************************************)
(* Properties of the yarn mesh.                                            *)
(***************************************************************************)
\* The strand meshes of the installed group; none when a ball or nothing is
\* installed.
StrandMeshes ==
  IF yarnMesh # Null /\ yarnMesh.kind = "group" THEN yarnMesh.userData.strands ELSE <<>>
\* offset.x^2 + offset.z^2, the square of the helix radius
HelixRadiusSquared(offset) == FracAdd(FracMul(offset.x, offset.x), FracMul(offset.z, offset.z))
FiniteVertex(p) == IsFinite(p.x) /\ IsFinite(p.y) /\ IsFinite(p.z)

\* C21: a group made by renderCombinedStrands from one strand has given
\* createTwistingStrand the offset (0, 0); a strand whose helix radius is at most
\* 0.01 lies on the fixed-radius wave (x and z within radius * 0.02 of the axis);
\* and on either branch every vertex coordinate is a finite number.
C21_DegenerateHelix ==
  /\ Len(StrandMeshes) = 1 => StrandMeshes[1].userData.offset = [x |-> Num(0), z |-> Num(0)]
  /\ \A i \in DOMAIN StrandMeshes :
       LET u == StrandMeshes[i].userData
           waveRadius == FracMul(u.radius, Frac(2, 100))
       IN /\ Len(u.initialPositions) = StrandSegments
          /\ \A v \in DOMAIN u.initialPositions : FiniteVertex(u.initialPositions[v])
          /\ FracGeq(Frac(1, 10000), HelixRadiusSquared(u.offset)) =>
               \A v \in DOMAIN u.initialPositions :
                 /\ FracGeq(waveRadius, FracAbs(u.initialPositions[v].x))
                 /\ FracGeq(waveRadius, FracAbs(u.initialPositions[v].z))

\* One strand of the default thickness: the wave of radius 0.06 * 0.02 about
\* the axis.
C21_Witness ==
  /\ Len(StrandMeshes) = 1
  /\ StrandMeshes[1].userData.offset = [x |-> Num(0), z |-> Num(0)]
  /\ StrandMeshes[1].userData.radius = Reduce(Frac(6, 100))
  /\ StrandMeshes[1].userData.initialPositions[1].x = Reduce(Frac(12, 10000))
  /\ FiniteVertex(StrandMeshes[1].userData.initialPositions[StrandSegments])

(***************************************************************************)
(* Properties of repeated teardown.                                        *)
(***************************************************************************)
ResourceKinds == {"geometry", "material", "texture"}
\* What a caller can observe of the SwatchRenderer: the kind of the installed
\* mesh, how many meshes of each kind the scene holds, how many resources of
\* each kind are live, and the frame handle.
SwatchObservable ==
  [meshKind |-> fabricMesh.kind,
   scene |-> [k \in {"placeholder", "fabric"} |-> Cardinality({m \in scene : m.kind = k})],
   live |-> [k \in ResourceKinds |->
               Cardinality({id \in DOMAIN resources :
                              resources[id].kind = k /\ ~resources[id].disposed})],
   animationId |-> animationId,
   pending |-> pending,
   rendererDisposed |-> rendererDisposed]
\* The same of the YarnRenderer.
YarnObservable ==
  [yarnMesh |-> yarnMesh,
   scene |-> yarnScene,
   live |-> {id \in DOMAIN yarnResources : ~yarnResources[id].disposed},
   animationId |-> yarnAnimationId,
   pending |-> yarnPending,
   rendererDisposed |-> yarnRendererDisposed]

YarnMeshGone(object) ==
  /\ object \notin yarnScene
  /\ \A id \in YarnResourcesOf(object) : yarnResources[id].disposed
FabricMeshGone(mesh) ==
  /\ mesh \notin scene
  /\ resources[mesh.geometry].disposed

\* C23: when renderCombinedStrands exits because createTwistingStrand raised,
\* or render exits because texture creation raised inside createFabric, every
\* geometry and material the call created is disposed, and the renderer's
\* current-mesh field does not refer to a mesh that is disposed and out of the
\* scene.
C23_DisposalOnErrorPaths ==
  /\ [](yarnThrew => (yarnMesh = Null \/ YarnResourcesOf(yarnMesh) = {} \/ ~YarnMeshGone(yarnMesh)))
  /\ [](threw => ~FabricMeshGone(fabricMesh))
  /\ [][ /\ yarnThrew' =>
              \A id \in (Len(yarnResources) + 1)..Len(yarnResources') :
                yarnResources'[id].disposed
         /\ threw' =>
              \A id \in (Len(resources) + 1)..Len(resources') : resources'[id].disposed ]_vars

(***************************************************************************)
(* Properties of the calculator on ids the catalog does not hold.          *)
(***************************************************************************)
FiniteInteger(q) == IsFinite(q) /\ q.den = 1

\* C24: on every non-empty sequence of ids, cataloged or not,
\* calculateCombinedWeight, estimateCombinedGauge and generateReport return a
\* value and raise nothing, and the stitches and rows of the gauge returned are
\* finite integers.
C24_NoInputAborts ==
  strandIds # <<>> =>
    /\ op \in {"calculateCombinedWeight", "estimateCombinedGauge", "generateReport"} =>
         ret \notin {TypeError, Null, Undefined}
    /\ op = "estimateCombinedGauge" =>
         FiniteInteger(ret.stitches) /\ FiniteInteger(ret.rows)
    /\ (op = "generateReport" /\ ret # TypeError) =>
         FiniteInteger(ret.gauge.stitches) /\ FiniteInteger(ret.gauge.rows)

(***************************************************************************)
(* Properties of the plies of a stitch.                                    *)
(***************************************************************************)
\* The main stroke of strand s (counted from 0) in each pass: the left leg of
\* column 0, the connection of row 0 from column 0, and the arc of column 0.
LegStroke(t, s) ==
  LET g == StitchGrid(t.needleSize, t.yarnThickness)
  IN t.canvas.commands[s * g.rows * 4 + 2]
ConnectionStroke(t, s) ==
  LET g == StitchGrid(t.needleSize, t.yarnThickness)
      n == Len(t.strands.strands)
  IN t.canvas.commands[g.cols * g.rows * n * 4 + s * (g.cols - 1) * 3 + 2]
ArcStroke(t, s) ==
  LET g == StitchGrid(t.needleSize, t.yarnThickness)
      n == Len(t.strands.strands)
  IN t.canvas.commands[g.cols * g.rows * n * 4 + g.rows * (g.cols - 1) * n * 3
                        + s * g.rows * 3 + 2]
\* How far each of them lies to the right of where a stroke without offset
\* starts: stitchWidth / 2 - legSpread for legs and arcs, stitchWidth / 2 +
\* legSpread for connections.
LegOffset(t, s) ==
  LET g == StitchGrid(t.needleSize, t.yarnThickness)
  IN LegStroke(t, s).path.moveTo[1] - (g.stitchWidth \div 2 - (g.stitchWidth * 28) \div 100)
ConnectionOffset(t, s) ==
  LET g == StitchGrid(t.needleSize, t.yarnThickness)
  IN ConnectionStroke(t, s).path.moveTo[1]
       - (g.stitchWidth \div 2 + (g.stitchWidth * 28) \div 100)
ArcOffset(t, s) ==
  LET g == StitchGrid(t.needleSize, t.yarnThickness)
  IN ArcStroke(t, s).path.moveTo[1] - (g.stitchWidth \div 2 - (g.stitchWidth * 28) \div 100)
\* n times the square of the width a lineWidth stands for, in square tenths of
\* a pixel: (yarnWidth / sqrt(strandCount) * percent / 100)^2 * n.
TimesSquare(n, lineWidth) ==
  Reduce(Frac(n * (lineWidth.yarnWidth \div 1000) * (lineWidth.yarnWidth \div 1000)
                * lineWidth.percent * lineWidth.percent,
              lineWidth.strandCount * 10000))
RECURSIVE SumOffsets(_, _)
SumOffsets(t, s) == IF s < 0 THEN 0 ELSE ArcOffset(t, s) + SumOffsets(t, s - 1)

\* C25: in a texture of n >= 1 strands the three passes stroke strand s with
\* the same ply width, whose square times n is the square of yarnWidth, and at
\* the same lateral offset (s - (n - 1) / 2) * 0.1 * yarnWidth; the offsets are
\* evenly spaced, pairwise distinct and sum to zero, and a single strand has
\* offset 0 and the ply width yarnWidth.
C25_PliesSpreadAndThinned ==
  TextureOfStrands =>
    LET n == Len(texture.strands.strands)
        yarnWidth == StitchGrid(texture.needleSize, texture.yarnThickness).yarnWidth
    IN /\ \A s \in 0..(n - 1) :
            /\ LegStroke(texture, s).shape = "ascendingLeg"
            /\ ConnectionStroke(texture, s).shape = "connection"
            /\ ArcStroke(texture, s).shape = "arc"
            /\ LegStroke(texture, s).lineWidth = ArcStroke(texture, s).lineWidth
            /\ ConnectionStroke(texture, s).lineWidth = ArcStroke(texture, s).lineWidth
            /\ TimesSquare(n, ArcStroke(texture, s).lineWidth)
                 = Num((yarnWidth \div 1000) * (yarnWidth \div 1000))
            /\ LegOffset(texture, s) = ArcOffset(texture, s)
            /\ ConnectionOffset(texture, s) = ArcOffset(texture, s)
            /\ 20 * ArcOffset(texture, s) = (2 * s - (n - 1)) * yarnWidth
            /\ s > 0 => 10 * (ArcOffset(texture, s) - ArcOffset(texture, s - 1)) = yarnWidth
            /\ \A r \in 0..(n - 1) : r # s => ArcOffset(texture, r) # ArcOffset(texture, s)
       /\ SumOffsets(texture, n - 1) = 0
       /\ \A i \in DOMAIN texture.canvas.commands :
            /\ texture.canvas.commands[i].lineWidth.yarnWidth = yarnWidth
            /\ texture.canvas.commands[i].lineWidth.strandCount = n
       /\ n = 1 =>
            /\ ArcOffset(texture, 0) = 0
            /\ ArcStroke(texture, 0).lineWidth = PlyWidth(yarnWidth, 1, 100)

\* Two strands on the thinnest yarn: offsets of -0.265 and +0.265 pixels.
C25_Witness ==
  /\ called = "createYarnTexture"
  /\ TextureOfStrands
  /\ Len(texture.strands.strands) = 2
  /\ texture.yarnThickness = DefaultYarnThickness
  /\ ArcOffset(texture, 0) = -2650
  /\ ArcOffset(texture, 1) = 2650

\* The resources as updateColors(list) may leave them: the colour of the
\* material of strand mesh index set to list[index].color where both exist,
\* every other resource as it was.
Recoloured(list) ==
  [id \in DOMAIN yarnResources |->
     IF \E index \in DOMAIN StrandMeshes :
          index <= Len(list) /\ StrandMeshes[index].material = id
     THEN [kind |-> yarnResources[id].kind,
           disposed |-> yarnResources[id].disposed,
           color |-> [color |-> list[CHOOSE index \in DOMAIN StrandMeshes :
                                       StrandMeshes[index].material = id].color,
                      scalar |-> Num(1)]]
     ELSE yarnResources[id]]

\* C26: updateColors(strands) leaves isAnimating, animationStartTime, the yarn
\* mesh, its rotation and the scene as they were, creates and disposes no
\* resource, changes only the colour of the materials of the strand meshes whose
\* index exists in the input list and in the mesh list, and changes nothing at
\* all when there is no yarn mesh or the mesh is no group of strands.
C26_UpdateColorsRecoloursOnly ==
  [][yarnCalled' = "updateColors" =>
       /\ UNCHANGED <<yarnIsAnimating, animationStartTime, yarnMesh, rotation, yarnScene,
                      yarnAnimationId, yarnPending, yarnRendererDisposed>>
       /\ DOMAIN yarnResources' = DOMAIN yarnResources
       /\ \A id \in DOMAIN yarnResources :
            /\ yarnResources'[id].disposed = yarnResources[id].disposed
            /\ yarnResources'[id].kind = yarnResources[id].kind
       /\ \E list \in YarnStrandLists : yarnResources' = Recoloured(list)
       /\ StrandMeshes = <<>> => yarnResources' = yarnResources ]_vars

\* A group of two strands rendered white, the first recoloured by an
\* updateColors call on a list of one strand while the twist animation runs: its
\* fibre hairs and the second strand keep the colour they were rendered with.
C26_Witness ==
  /\ yarnCalled = "updateColors"
  /\ Len(StrandMeshes) = 2
  /\ yarnIsAnimating
  /\ yarnResources[StrandMeshes[1].material].color.color = WellFormedColor
  /\ yarnResources[StrandMeshes[1].children[1].material].color.color = White
  /\ yarnResources[StrandMeshes[2].material].color.color = White

(***************************************************************************)
(* The twist animation: renders, clears, frames and the clock.  The        *)
(* browser runs every requested frame (requestAnimationFrame) and the      *)
(* clock goes on, as far as the bounds of the model let them.              *)
(***************************************************************************)
NextTwist ==
  \/ RenderCombinedStrands /\ UNCHANGED <<calcVars, swatchVars>>
  \/ YarnClear /\ UNCHANGED <<calcVars, swatchVars>>
  \/ YarnFrame /\ UNCHANGED <<calcVars, swatchVars>>
  \/ TimePasses /\ UNCHANGED <<calcVars, swatchVars>>

\* WF_vars(YarnFrame) written out: a frame can run when one is pending, and the
\* step that runs it is the one that counts a frame.
FramesKeepFiring ==
  \/ []<>(yarnPending = {} \/ yarnFrames >= MaxYarnFrames)
  \/ []<><<yarnFrames' = yarnFrames + 1>>_vars

SpecTwist ==
  /\ InitSwatch
  /\ [][NextTwist]_vars
  /\ FramesKeepFiring
  /\ WF_vars(TimePasses /\ UNCHANGED <<calcVars, swatchVars>>)

\* A step of renderCombinedStrands, a step of animate().
RenderStep ==
  yarnCalled' = "renderCombinedStrands" /\ yarnFrames' = yarnFrames /\ now' = now
FrameStep == yarnFrames' = yarnFrames + 1

\* rotation.y of four full turns, in units of pi.
FourFullTurns == FracMul(Num(4), Num(2))

\* Every renderCombinedStrands restarts the twist from the current time.
TwistRestarts ==
  [][RenderStep => yarnIsAnimating' /\ animationStartTime' = now']_vars

\* While the clock can still reach the end of the running twist, it does,
\* unless a later render restarts the twist too late for that.
DurationElapses ==
  (yarnIsAnimating /\ animationStartTime + animationDuration <= MaxClock)
    ~> \/ now - animationStartTime >= animationDuration
       \/ animationStartTime + animationDuration > MaxClock

\* Once the duration has elapsed and a frame can still run, the twist ends,
\* unless a render restarts it first.
TwistEndsInFrame ==
  (yarnIsAnimating /\ now - animationStartTime >= animationDuration
     /\ yarnFrames < MaxYarnFrames)
    ~> (~yarnIsAnimating \/ now - animationStartTime < animationDuration)

\* It ends in a frame, only once the duration has elapsed.
TwistEndsAfterDuration ==
  [][yarnIsAnimating /\ ~yarnIsAnimating'
       => FrameStep /\ now - animationStartTime >= animationDuration]_vars

\* The frame that ends the twist has set the group's rotation to four full turns.
TwistEndsAtFourTurns ==
  [][yarnIsAnimating /\ ~yarnIsAnimating' /\ yarnMesh # Null
       => rotation'.twist = FourFullTurns]_vars

\* isAnimating stays false until the next renderCombinedStrands.
TwistStaysOff == [][~yarnIsAnimating /\ yarnIsAnimating' => RenderStep]_vars

\* The idle rotation is added in the frames with a mesh and no running twist,
\* and in no other step.
IdleRotation ==
  [][ /\ rotation'.idle = rotation.idle + 1
           => FrameStep /\ yarnMesh # Null /\ ~yarnIsAnimating'
      /\ FrameStep /\ yarnMesh # Null /\ ~yarnIsAnimating'
           => rotation'.idle = rotation.idle + 1 ]_vars

\* C27: every renderCombinedStrands restarts the twist animation (isAnimating
\* true, the start time the current time); when frames keep firing and the
\* clock advances isAnimating becomes false once 2.0 s have elapsed, with the
\* group's rotation set to four full turns, and stays false until the next
\* renderCombinedStrands; the 0.005 of idle rotation is added only in frames
\* where a yarn mesh exists and isAnimating is false.
C27_TwistAnimation ==
  /\ TwistRestarts
  /\ DurationElapses
  /\ TwistEndsInFrame
  /\ TwistEndsAfterDuration
  /\ TwistEndsAtFourTurns
  /\ TwistStaysOff
  /\ IdleRotation

\* The x and y of every vertex of the current geometry are the snapshot's.
SameVertices(array, original) ==
  /\ DOMAIN array = DOMAIN original
  /\ \A v \in DOMAIN array : array[v].x = original[v].x /\ array[v].y = original[v].y

MeshSnapshotConsistent ==
  ~rendererDisposed =>
    /\ fabricMesh # Null
    /\ scene = {fabricMesh}
    /\ fabricGeometry = fabricMesh.geometry
    /\ fabricGeometry \in DOMAIN resources
    /\ ~resources[fabricGeometry].disposed
    /\ originalPositions.geometry = fabricGeometry
    /\ Len(originalPositions.array) = Len(positions)
    /\ SameVertices(positions, originalPositions.array)
    /\ originalPositions.array =
         IF fabricMesh.kind = "fabric" THEN FabricPlane ELSE PlaceholderPlane

\* A new mesh comes with a new geometry and the snapshot of that geometry.
ReplacedWholesale ==
  ~rendererDisposed' /\ fabricMesh' # fabricMesh =>
    /\ fabricGeometry' \notin DOMAIN resources
    /\ fabricGeometry' = fabricMesh'.geometry
    /\ originalPositions'.geometry = fabricGeometry'
    /\ positions' = originalPositions'.array

\* The mesh, its geometry and its snapshot change together or not at all.
NeverPatched ==
  ~rendererDisposed' /\ fabricMesh' = fabricMesh =>
    /\ fabricGeometry' = fabricGeometry
    /\ originalPositions' = originalPositions

\* C28: from the end of construction until destroy(), after any sequence of
\* render, clear and frames, fabricMesh is non-null and the only mesh in the
\* scene, fabricGeometry is that mesh's geometry, and originalPositions is the
\* snapshot taken from that same geometry at its creation, with the same number
\* of vertices; a mesh is replaced together with its geometry and snapshot and
\* never patched, so a frame never deforms one mesh with another's snapshot.
C28_MeshSnapshotConsistency ==
  /\ []MeshSnapshotConsistent
  /\ [][ReplacedWholesale /\ NeverPatched]_vars

\* A frame has deformed a fabric mesh that replaced a mesh which had itself
\* replaced the constructor's placeholder.
C28_Witness ==
  /\ ~rendererDisposed
  /\ called = "frame"
  /\ fabricMesh.kind = "fabric"
  /\ fabricGeometry > 5
  /\ positions # originalPositions.array
  /\ Len(positions) # Len(PlaceholderPlane)

\* The geometries and materials the renderer has created and not disposed of.
YarnUndisposed == {id \in DOMAIN yarnResources : ~yarnResources[id].disposed}
YarnReachable == IF yarnMesh = Null THEN {} ELSE YarnResourcesOf(yarnMesh)

\* C29: after any sequence of renderCombinedStrands, renderSingleYarn and clear
\* calls, none raising, every geometry and material created by the renderer
\* (tube geometries and materials, hair geometries and materials, and every
\* intermediate geometry built while a strand is created) is disposed unless it
\* is reachable from the current yarnMesh; after clear() yarnMesh is null,
\* nothing of it is in the scene, and no geometry or material created by the
\* renderer is undisposed.
C29_DisposalCompleteness ==
  /\ YarnUndisposed \subseteq YarnReachable
  /\ yarnCalled = "clear" =>
       /\ yarnMesh = Null
       /\ yarnScene = {}
       /\ YarnUndisposed = {}

====
